---- MODULE Spec2Model ----
(***************************************************************************)
(* link2aws: the ARN parser (class ARN, its constructor and getters) and   *)
(* the console-link resolver of link2aws.js.                               *)
(*                                                                         *)
(* JavaScript strings are TLA+ strings; a character is a string of length  *)
(* one, SubSeq(s, i, i).  JavaScript indices are 0-based, TLA+ ones        *)
(* 1-based: the operators named after String.prototype methods take and    *)
(* return 0-based indices, as the code does.                               *)
(***************************************************************************)
EXTENDS Integers, Sequences, FiniteSets, TLC

VARIABLES
    arg,    \* the argument of `new ARN(arg)`: [t |-> typeof, v |-> value]
    pc,     \* "new" | "constructed" | "threw"
    obj,    \* the ARN object's fields (NoObject until constructed)
    thrown, \* message of the Error the constructor threw, "" if none
    ret,    \* what the last getter read gave the caller
    first,  \* what the first read of consoleLink gave the caller, and whether
            \* consoleLink was read never (0), once (1) or again (2)
    argv,   \* process.argv of a command-line run (<<>> when used as a library)
    idx,    \* the command-line loop's `i`, an index into process.argv (0-based)
    printed \* what the command-line run has written, oldest first

vars == <<arg, pc, obj, thrown, ret, first, argv, idx, printed>>

----------------------------------------------------------------------------
(* Bounds of the model *)

\* longest resource segment (everything after the fifth colon) enumerated
MaxRest == 5

\* most arguments given on a command line
MaxArgs == 3

----------------------------------------------------------------------------
(* String.prototype, as far as link2aws.js uses it *)

CharAt(s, i) == SubSeq(s, i, i)

Min(S) == CHOOSE i \in S : \A j \in S : i <= j
Max(S) == 0 - Min({0 - i : i \in S})

\* 1-based positions of the character c in s
Positions(s, c) == {i \in 1..Len(s) : CharAt(s, i) = c}

\* s.indexOf(c) for a single character c: 0-based, -1 when absent
indexOf(s, c) ==
    LET at == Positions(s, c) IN IF at = {} THEN -1 ELSE Min(at) - 1

\* s.lastIndexOf(c) for a single character c
lastIndexOf(s, c) ==
    LET at == Positions(s, c) IN IF at = {} THEN -1 ELSE Max(at) - 1

\* s.slice(b, e) for 0 <= b and 0 <= e: the characters b .. e-1
slice(s, b, e) ==
    LET hi == IF e > Len(s) THEN Len(s) ELSE e
    IN  IF b >= hi THEN "" ELSE SubSeq(s, b + 1, hi)

RECURSIVE Ascending(_)
\* the numbers of S, smallest first
Ascending(S) ==
    IF S = {} THEN <<>> ELSE LET m == Min(S) IN <<m>> \o Ascending(S \ {m})

RECURSIVE Pieces(_, _, _)
\* the pieces of s from the 0-based index `from` on, cut at the 1-based
\* positions `at`
Pieces(s, at, from) ==
    IF at = <<>> THEN <<slice(s, from, Len(s))>>
    ELSE <<slice(s, from, at[1] - 1)>> \o Pieces(s, Tail(at), at[1])

\* s.split(c) for a single character c: the tokens between the c's, in order
split(s, c) == Pieces(s, Ascending(Positions(s, c)), 0)

\* a.join(c)
RECURSIVE join(_, _)
join(a, c) ==
    IF a = <<>> THEN ""
    ELSE IF Len(a) = 1 THEN a[1]
    ELSE a[1] \o c \o join(Tail(a), c)

\* the white space String.prototype.trim removes, as far as the inputs have it
WhiteSpace == {" ", "\t", "\n", "\r"}

\* s.trim()
trim(s) ==
    IF s = "" THEN ""
    ELSE IF CharAt(s, 1) \notin WhiteSpace /\ CharAt(s, Len(s)) \notin WhiteSpace
    THEN s
    ELSE LET keep == {i \in 1..Len(s) : CharAt(s, i) \notin WhiteSpace}
         IN  IF keep = {} THEN "" ELSE SubSeq(s, Min(keep), Max(keep))

Lower == {"a", "b", "c", "d", "e", "f", "g", "h", "i", "j", "k", "l", "m",
          "n", "o", "p", "q", "r", "s", "t", "u", "v", "w", "x", "y", "z"}
Upper == {"A", "B", "C", "D", "E", "F", "G", "H", "I", "J", "K", "L", "M",
          "N", "O", "P", "Q", "R", "S", "T", "U", "V", "W", "X", "Y", "Z"}
Digit == {"0", "1", "2", "3", "4", "5", "6", "7", "8", "9"}

\* the character class of /^[a-zA-Z0-9:/+=,.@_*#\-]*$/
ArnChars == Lower \cup Upper \cup Digit \cup
            {":", "/", "+", "=", ",", ".", "@", "_", "*", "#", "-"}

\* the character class of /^[a-z0-9-]*$/
RegionChars == Lower \cup Digit \cup {"-"}

\* /^[class]*$/.test(s)
TestAll(s, class) == \A i \in 1..Len(s) : CharAt(s, i) \in class

----------------------------------------------------------------------------
(* Errors of the constructor, by the message of the Error thrown *)

LengthLimit == 2048

ErrNotString == "ARN must be a string"
ErrTooLong == "ARN too long"
ErrInvalidCharacters == "ARN contains invalid characters"
ErrBadTokens == "Bad number of tokens"
ErrBadRegionPrefix == "Bad region: "
ErrBadRegion(region) == ErrBadRegionPrefix \o "\"" \o region \o "\""

StartsWith(s, p) == Len(s) >= Len(p) /\ SubSeq(s, 1, Len(p)) = p

----------------------------------------------------------------------------
(* class ARN: the constructor *)

\* typeof(tokens[i]) != 'undefined', i 0-based
Defined(tokens, i) == i + 1 <= Len(tokens)

\* Tokenize without the rejoin: only the seventh token is kept
TokenizeNoRejoin(text) ==
    LET all == split(text, ":")
        n == Len(all)
    IN  SubSeq(all, 1, IF n < 7 THEN n ELSE 7)

\* var firstTokens = text.split(':'); var tokens = firstTokens.splice(0, 6);
\* if (firstTokens.length > 0) tokens.push(firstTokens.join(':'));
Tokenize(text) ==
    LET all == split(text, ":")
        n == Len(all)
        tokens == SubSeq(all, 1, IF n < 6 THEN n ELSE 6)
        firstTokens == SubSeq(all, 7, n)
    IN  IF Len(firstTokens) > 0
        THEN Append(tokens, join(firstTokens, ":"))
        ELSE tokens

\* SlashIndex with lastIndexOf for indexOf
SlashIndexLast(t5) == lastIndexOf(t5, "/")

\* tokens[5].indexOf('/')
SlashIndex(t5) == indexOf(t5, "/")

\* HasTypeSlash with != 0 for > 0
HasTypeSlashNonZero(t5) == SlashIndex(t5) # 0

\* tokens[5].indexOf('/') > 0
HasTypeSlash(t5) == SlashIndex(t5) > 0

\* BadNumberOfTokens with a truthiness test for the typeof test
BadNumberOfTokensFalsy(tokens) == ~Defined(tokens, 5) \/ tokens[6] = ""

\* the final else of the chain: tokens[5] is undefined
BadNumberOfTokens(tokens) == ~Defined(tokens, 5)

\* ResourceFields with the 7th token also kept as the revision in the type:id
\* branch
ResourceFieldsRevisionInColonForm(tokens) ==
    LET t5 == tokens[6]
        cut == SlashIndex(t5)
    IN  IF Defined(tokens, 6)
        THEN IF HasTypeSlash(t5)
             THEN [resource_type |-> slice(t5, 0, cut),
                   resource |-> slice(t5, cut + 1, Len(t5)),
                   resource_revision |-> tokens[7],
                   hasPath |-> TRUE]
             ELSE [resource_type |-> t5,
                   resource |-> tokens[7],
                   resource_revision |-> tokens[7],
                   hasPath |-> FALSE]
        ELSE IF HasTypeSlash(t5)
             THEN [resource_type |-> slice(t5, 0, cut),
                   resource |-> slice(t5, cut + 1, Len(t5)),
                   resource_revision |-> "",
                   hasPath |-> TRUE]
             ELSE [resource_type |-> "",
                   resource |-> t5,
                   resource_revision |-> "",
                   hasPath |-> FALSE]

\* ResourceFields with hasPath left false in the type/id:revision branch
ResourceFieldsRevisionWithoutPath(tokens) ==
    LET t5 == tokens[6]
        cut == SlashIndex(t5)
    IN  IF Defined(tokens, 6)
        THEN IF HasTypeSlash(t5)
             THEN [resource_type |-> slice(t5, 0, cut),
                   resource |-> slice(t5, cut + 1, Len(t5)),
                   resource_revision |-> tokens[7],
                   hasPath |-> FALSE]
             ELSE [resource_type |-> t5,
                   resource |-> tokens[7],
                   resource_revision |-> "",
                   hasPath |-> FALSE]
        ELSE IF HasTypeSlash(t5)
             THEN [resource_type |-> slice(t5, 0, cut),
                   resource |-> slice(t5, cut + 1, Len(t5)),
                   resource_revision |-> "",
                   hasPath |-> TRUE]
             ELSE [resource_type |-> "",
                   resource |-> t5,
                   resource_revision |-> "",
                   hasPath |-> FALSE]

\* the if / else if chain over tokens[5] and tokens[6]: the fields it assigns;
\* only evaluated when tokens[5] is defined (the final else throws)
ResourceFields(tokens) ==
    LET t5 == tokens[6]
        cut == SlashIndex(t5)
    IN  IF Defined(tokens, 6)
        THEN IF HasTypeSlash(t5)
             THEN [resource_type |-> slice(t5, 0, cut),
                   resource |-> slice(t5, cut + 1, Len(t5)),
                   resource_revision |-> tokens[7],
                   hasPath |-> TRUE]
             ELSE [resource_type |-> t5,
                   resource |-> tokens[7],
                   resource_revision |-> "",
                   hasPath |-> FALSE]
        ELSE IF HasTypeSlash(t5)
             THEN [resource_type |-> slice(t5, 0, cut),
                   resource |-> slice(t5, cut + 1, Len(t5)),
                   resource_revision |-> "",
                   hasPath |-> TRUE]
             ELSE [resource_type |-> "",
                   resource |-> t5,
                   resource_revision |-> "",
                   hasPath |-> FALSE]

\* BadRegion with upper case let through
BadRegionUpperAllowed(region) ==
    region # "" /\ ~TestAll(region, RegionChars \cup Upper)

\* this.region != '' && !/^[a-z0-9-]*$/.test(this.region)
BadRegion(region) == region # "" /\ ~TestAll(region, RegionChars)

\* TooLong with the limit itself rejected
TooLongAtLimit(text) == Len(text) >= LengthLimit

\* text.length > 2048
TooLong(text) == Len(text) > LengthLimit

\* InvalidCharacters with the pattern's anchors left out: it matches the
\* empty string inside any text
InvalidCharactersUnanchored(text) == FALSE

\* InvalidCharacters with the space let through
InvalidCharactersSpaceAllowed(text) == ~TestAll(text, ArnChars \cup {" "})

\* !/^[a-zA-Z0-9:/+=,.@_*#\-]*$/.test(text)
InvalidCharacters(text) == ~TestAll(text, ArnChars)

Throw(msg) == [threw |-> msg]

\* typeof text != "string", with the mutant that only rejects null
NotAStringNullOnly(a) == a.v = "null"

NotAString(a) == a.t # "string"

\* ARN with the character check made before the length check
ARNCharactersBeforeLength(a) ==
    IF NotAString(a) THEN Throw(ErrNotString)
    ELSE LET text == trim(a.v) IN
    IF InvalidCharacters(text) THEN Throw(ErrInvalidCharacters)
    ELSE IF TooLong(text) THEN Throw(ErrTooLong)
    ELSE LET tokens == Tokenize(text) IN
    IF BadNumberOfTokens(tokens) THEN Throw(ErrBadTokens)
    ELSE LET rf == ResourceFields(tokens)
             this == [arn |-> text,
                      prefix |-> tokens[1],
                      partition |-> tokens[2],
                      service |-> tokens[3],
                      region |-> tokens[4],
                      account |-> tokens[5],
                      resource_revision |-> rf.resource_revision,
                      resource_type |-> rf.resource_type,
                      resource |-> rf.resource,
                      hasPath |-> rf.hasPath]
         IN  IF BadRegion(this.region) THEN Throw(ErrBadRegion(this.region))
             ELSE [threw |-> "", this |-> this]

\* new ARN(a): [threw |-> message] or [threw |-> "", this |-> the fields]
ARN(a) ==
    IF NotAString(a) THEN Throw(ErrNotString)
    ELSE LET text == trim(a.v) IN
    IF TooLong(text) THEN Throw(ErrTooLong)
    ELSE IF InvalidCharacters(text) THEN Throw(ErrInvalidCharacters)
    ELSE LET tokens == Tokenize(text) IN
    IF BadNumberOfTokens(tokens) THEN Throw(ErrBadTokens)
    ELSE LET rf == ResourceFields(tokens)
             this == [arn |-> text,
                      prefix |-> tokens[1],
                      partition |-> tokens[2],
                      service |-> tokens[3],
                      region |-> tokens[4],
                      account |-> tokens[5],
                      resource_revision |-> rf.resource_revision,
                      resource_type |-> rf.resource_type,
                      resource |-> rf.resource,
                      hasPath |-> rf.hasPath]
         IN  IF BadRegion(this.region) THEN Throw(ErrBadRegion(this.region))
             ELSE [threw |-> "", this |-> this]

----------------------------------------------------------------------------
(* class ARN: the getters *)

Header(this) ==
    this.prefix \o ":" \o this.partition \o ":" \o this.service \o ":" \o
    this.region \o ":" \o this.account \o ":"

\* String with ':' for every delimiter
StringAlwaysColon(this) ==
    IF this.resource_type = ""
    THEN Header(this) \o this.resource
    ELSE Header(this) \o this.resource_type \o ":" \o this.resource

\* get string()
String(this) ==
    IF this.resource_type = ""
    THEN Header(this) \o this.resource
    ELSE IF this.hasPath
    THEN IF this.resource_revision # ""
         THEN Header(this) \o this.resource_type \o "/" \o this.resource \o
              ":" \o this.resource_revision
         ELSE Header(this) \o this.resource_type \o "/" \o this.resource
    ELSE Header(this) \o this.resource_type \o ":" \o this.resource

\* get qualifiers()
Qualifiers(this) == split(this.resource, ":")

\* get pathAllButLast(): substr(0, lastIndexOf('/')), a negative length gives ''
PathAllButLast(this) ==
    LET n == lastIndexOf(this.resource, "/")
    IN  IF n <= 0 THEN "" ELSE slice(this.resource, 0, n)

\* PathLast cut after the first '/' instead of the last
PathLastAfterFirstSlash(this) ==
    slice(this.resource, indexOf(this.resource, "/") + 1, Len(this.resource))

\* get pathLast(): substr(lastIndexOf('/') + 1, length)
PathLast(this) ==
    slice(this.resource, lastIndexOf(this.resource, "/") + 1, Len(this.resource))

----------------------------------------------------------------------------
(* _getLinkTemplates(): the link-template table *)

\* the keys of the object _getLinkTemplates() returns: the AWS services
ServiceKeys == {
    "a4b", "access-analyzer", "acm", "acm-pca", "amplify", "apigateway",
    "appconfig", "appflow", "appmesh", "appmesh-preview", "appstream",
    "appsync", "artifact", "athena", "autoscaling", "aws-marketplace",
    "backup", "batch", "budgets", "cassandra", "catalog", "chatbot",
    "chime", "cloud9", "clouddirectory", "cloudformation", "cloudfront",
    "cloudhsm", "cloudsearch", "cloudtrail", "cloudwatch", "codeartifact",
    "codebuild", "codecommit", "codedeploy", "codeguru-profiler",
    "codeguru-reviewer", "codepipeline", "codestar",
    "codestar-connections", "codestar-notifications", "cognito-identity",
    "cognito-idp", "cognito-sync", "comprehend", "config", "connect",
    "cur", "dataexchange", "datasync", "dax", "deepcomposer", "deeplens",
    "deepracer", "detective", "devicefarm", "directconnect", "dlm", "dms",
    "ds", "dynamodb", "ec2", "ecr", "ecs", "eks", "elastic-inference",
    "elasticbeanstalk", "elasticfilesystem", "elasticloadbalancing",
    "elasticmapreduce", "elastictranscoder", "es", "events", "execute-api",
    "firehose", "fms", "forecast", "freertos", "fsx", "gamelift",
    "glacier", "globalaccelerator", "glue", "greengrass", "groundstation",
    "guardduty", "health", "honeycode", "iam", "imagebuilder", "iot",
    "iot1click", "iotanalytics", "iotevents", "iotsitewise",
    "iotthingsgraph", "kafka", "kendra", "kinesis", "kinesisanalytics",
    "kinesisvideo", "kms", "lambda", "lex", "license-manager", "lightsail",
    "logs", "machinelearning", "macie2", "managedblockchain",
    "mediaconnect", "mediaconvert", "medialive", "mediapackage",
    "mediapackage-vod", "mediastore", "mediatailor", "mgh", "mobilehub",
    "mobiletargeting", "mq", "neptune-db", "networkmanager", "opsworks",
    "organizations", "outposts", "personalize", "pi", "polly", "qldb",
    "quicksight", "ram", "rds", "rds-db", "redshift", "rekognition",
    "resource-groups", "robomaker", "route53", "route53resolver", "s3",
    "sagemaker", "savingsplans", "schemas", "sdb", "secretsmanager",
    "securityhub", "serverlessrepo", "servicediscovery", "servicequotas",
    "ses", "shield", "signer", "sns", "sqs", "ssm", "states",
    "storagegateway", "sumerian", "swf", "synthetics", "transfer",
    "trustedadvisor", "waf", "waf-regional", "wafv2", "wellarchitected",
    "worklink", "workmail", "workmailmessageflow", "workspaces", "xray"}

\* the <<service, resource type>> keys that are mapped to null
NullEntries == {
    <<"a4b", "address-book">>, <<"a4b", "conference-provider">>,
    <<"a4b", "contact">>, <<"a4b", "device">>,
    <<"a4b", "network-profile">>, <<"a4b", "profile">>, <<"a4b", "room">>,
    <<"a4b", "schedule">>, <<"a4b", "skill-group">>, <<"a4b", "user">>,
    <<"acm-pca", "certificate-authority">>,
    <<"apigateway", "">>,
    <<"appconfig", "application">>, <<"appconfig", "deploymentstrategy">>,
    <<"appflow", "connectorprofile">>, <<"appflow", "flow">>,
    <<"appmesh", "mesh">>,
    <<"appmesh-preview", "mesh">>,
    <<"appstream", "fleet">>, <<"appstream", "image">>,
    <<"appstream", "image-builder">>, <<"appstream", "stack">>,
    <<"appsync", "apis">>,
    <<"artifact", "agreement">>, <<"artifact", "customer-agreement">>,
    <<"artifact", "report-package">>,
    <<"athena", "datacatalog">>, <<"athena", "workgroup">>,
    <<"autoscaling", "launchConfiguration">>,
    <<"backup", "backup-plan">>,
    <<"batch", "job-definition">>, <<"batch", "job-queue">>,
    <<"budgets", "budget">>,
    <<"cassandra", "">>,
    <<"catalog", "portfolio">>, <<"catalog", "product">>,
    <<"chime", "meeting">>,
    <<"cloud9", "environment">>,
    <<"clouddirectory", "directory">>, <<"clouddirectory", "schema">>,
    <<"cloudformation", "changeSet">>, <<"cloudformation", "stack">>,
    <<"cloudformation", "stackset">>,
    <<"cloudfront", "origin-access-identity">>,
    <<"cloudfront", "streaming-distribution">>,
    <<"cloudhsm", "backup">>, <<"cloudhsm", "cluster">>,
    <<"cloudsearch", "domain">>,
    <<"cloudtrail", "trail">>,
    <<"cloudwatch", "alarm">>, <<"cloudwatch", "dashboard">>,
    <<"cloudwatch", "insight-rule">>,
    <<"codeartifact", "domain">>, <<"codeartifact", "package">>,
    <<"codeartifact", "repository">>,
    <<"codebuild", "build">>, <<"codebuild", "project">>,
    <<"codebuild", "report">>, <<"codebuild", "report-group">>,
    <<"codedeploy", "application">>, <<"codedeploy", "deploymentconfig">>,
    <<"codedeploy", "deploymentgroup">>, <<"codedeploy", "instance">>,
    <<"codeguru-profiler", "profilingGroup">>,
    <<"codeguru-reviewer", ".+">>, <<"codeguru-reviewer", "association">>,
    <<"codepipeline", "actiontype">>, <<"codepipeline", "webhook">>,
    <<"codestar", "project">>,
    <<"codestar-connections", "connection">>,
    <<"codestar-notifications", "notificationrule">>,
    <<"cognito-identity", "identitypool">>,
    <<"cognito-idp", "userpool">>,
    <<"cognito-sync", "identitypool">>,
    <<"comprehend", "document-classifier">>,
    <<"comprehend", "document-classifier-endpoint">>,
    <<"comprehend", "entity-recognizer">>,
    <<"config", "aggregation-authorization">>,
    <<"config", "config-aggregator">>, <<"config", "config-rule">>,
    <<"config", "conformance-pack">>,
    <<"config", "organization-config-rule">>,
    <<"config", "organization-conformance-pack">>,
    <<"config", "remediation-configuration">>,
    <<"connect", "instance">>,
    <<"cur", "definition">>,
    <<"dataexchange", "data-sets">>, <<"dataexchange", "jobs">>,
    <<"datasync", "agent">>, <<"datasync", "location">>,
    <<"datasync", "task">>,
    <<"dax", "cache">>,
    <<"deepcomposer", "audio">>, <<"deepcomposer", "composition">>,
    <<"deepcomposer", "model">>,
    <<"deeplens", "device">>, <<"deeplens", "model">>,
    <<"deeplens", "project">>,
    <<"deepracer", " evaluation_job">>, <<"deepracer", "leaderboard">>,
    <<"deepracer", "leaderboard_evaluation_job">>,
    <<"deepracer", "model">>, <<"deepracer", "track">>,
    <<"deepracer", "training_job">>,
    <<"detective", "graph">>,
    <<"devicefarm", "artifact">>, <<"devicefarm", "device">>,
    <<"devicefarm", "deviceinstance">>, <<"devicefarm", "devicepool">>,
    <<"devicefarm", "instanceprofile">>, <<"devicefarm", "job">>,
    <<"devicefarm", "networkprofile">>, <<"devicefarm", "project">>,
    <<"devicefarm", "run">>, <<"devicefarm", "sample">>,
    <<"devicefarm", "session">>, <<"devicefarm", "suite">>,
    <<"devicefarm", "test">>, <<"devicefarm", "testgrid-project">>,
    <<"devicefarm", "testgrid-session">>, <<"devicefarm", "upload">>,
    <<"devicefarm", "vpceconfiguration">>,
    <<"directconnect", "dx-gateway">>, <<"directconnect", "dxcon">>,
    <<"directconnect", "dxlag">>, <<"directconnect", "dxvif">>,
    <<"dlm", "policy">>,
    <<"dms", "cert">>, <<"dms", "endpoint">>, <<"dms", "es">>,
    <<"dms", "rep">>, <<"dms", "subgrp">>, <<"dms", "task">>,
    <<"ds", "directory">>,
    <<"dynamodb", "global-table">>,
    <<"ec2", "capacity-reservation">>, <<"ec2", "client-vpn-endpoint">>,
    <<"ec2", "customer-gateway">>, <<"ec2", "dedicated-host">>,
    <<"ec2", "dhcp-options">>, <<"ec2", "elastic-gpu">>,
    <<"ec2", "fpga-image">>, <<"ec2", "image">>,
    <<"ec2", "internet-gateway">>, <<"ec2", "key-pair">>,
    <<"ec2", "launch-template">>, <<"ec2", "local-gateway">>,
    <<"ec2", "local-gateway-route-table">>,
    <<"ec2", "local-gateway-route-table-virtual-interface-group-association">>,
    <<"ec2", "local-gateway-route-table-vpc-association">>,
    <<"ec2", "local-gateway-virtual-interface">>,
    <<"ec2", "local-gateway-virtual-interface-group">>,
    <<"ec2", "network-acl">>, <<"ec2", "network-interface">>,
    <<"ec2", "placement-group">>, <<"ec2", "reserved-instances">>,
    <<"ec2", "route-table">>, <<"ec2", "snapshot">>,
    <<"ec2", "spot-instances-request">>,
    <<"ec2", "traffic-mirror-filter">>,
    <<"ec2", "traffic-mirror-filter-rule">>,
    <<"ec2", "traffic-mirror-session">>,
    <<"ec2", "traffic-mirror-target">>, <<"ec2", "transit-gateway">>,
    <<"ec2", "transit-gateway-attachment">>,
    <<"ec2", "transit-gateway-multicast-domain">>,
    <<"ec2", "transit-gateway-route-table">>, <<"ec2", "volume">>,
    <<"ec2", "vpc-endpoint">>, <<"ec2", "vpc-endpoint-service">>,
    <<"ec2", "vpc-flow-log">>, <<"ec2", "vpc-peering-connection">>,
    <<"ec2", "vpn-connection">>, <<"ec2", "vpn-gateway">>,
    <<"ecr", "repository">>,
    <<"ecs", "container-instance">>, <<"ecs", "task-set">>,
    <<"eks", "fargateprofile">>,
    <<"elastic-inference", "elastic-inference-accelerator">>,
    <<"elasticbeanstalk", "application">>,
    <<"elasticbeanstalk", "applicationversion">>,
    <<"elasticbeanstalk", "configurationtemplate">>,
    <<"elasticbeanstalk", "environment">>,
    <<"elasticbeanstalk", "platform">>,
    <<"elasticbeanstalk", "solutionstack">>,
    <<"elasticfilesystem", "access-point">>,
    <<"elasticfilesystem", "file-system">>,
    <<"elasticloadbalancing", "listener">>,
    <<"elasticloadbalancing", "listener-rule">>,
    <<"elasticloadbalancing", "loadbalancer">>,
    <<"elasticloadbalancing", "targetgroup">>,
    <<"elasticmapreduce", "cluster">>, <<"elasticmapreduce", "editor">>,
    <<"elastictranscoder", "job">>, <<"elastictranscoder", "pipeline">>,
    <<"elastictranscoder", "preset">>,
    <<"es", "domain">>,
    <<"events", "event-bus">>, <<"events", "event-source">>,
    <<"events", "rule">>,
    <<"fms", "policy">>,
    <<"forecast", "algorithm">>, <<"forecast", "dataset">>,
    <<"forecast", "dataset-group">>, <<"forecast", "dataset-import-job">>,
    <<"forecast", "forecast">>, <<"forecast", "forecast-export-job">>,
    <<"forecast", "predictor">>,
    <<"freertos", "configuration">>,
    <<"fsx", "backup">>, <<"fsx", "file-system">>, <<"fsx", "task">>,
    <<"gamelift", "alias">>, <<"gamelift", "build">>,
    <<"gamelift", "fleet">>, <<"gamelift", "gamesessionqueue">>,
    <<"gamelift", "matchmakingconfiguration">>,
    <<"gamelift", "matchmakingruleset">>, <<"gamelift", "script">>,
    <<"glacier", "vaults">>,
    <<"globalaccelerator", "accelerator">>,
    <<"glue", "catalog">>, <<"glue", "connection">>, <<"glue", "crawler">>,
    <<"glue", "database">>, <<"glue", "devendpoint">>, <<"glue", "job">>,
    <<"glue", "mlTransform">>, <<"glue", "table">>,
    <<"glue", "tableVersion">>, <<"glue", "trigger">>,
    <<"glue", "userDefinedFunction">>, <<"glue", "workflow">>,
    <<"greengrass", "">>,
    <<"groundstation", "config">>, <<"groundstation", "contact">>,
    <<"groundstation", "dataflow-endpoint-group">>,
    <<"groundstation", "groundstation">>,
    <<"groundstation", "mission-profile">>,
    <<"groundstation", "satellite">>,
    <<"guardduty", "detector">>,
    <<"health", "event">>,
    <<"honeycode", "screen">>, <<"honeycode", "screen-automation">>,
    <<"iam", "access-report">>, <<"iam", "assumed-role">>,
    <<"iam", "federated-user">>, <<"iam", "instance-profile">>,
    <<"iam", "mfa">>, <<"iam", "saml-provider">>,
    <<"iam", "server-certificate">>, <<"iam", "sms-mfa">>,
    <<"imagebuilder", "component">>,
    <<"imagebuilder", "distribution-configuration">>,
    <<"imagebuilder", "image">>, <<"imagebuilder", "image-pipeline">>,
    <<"imagebuilder", "image-recipe">>,
    <<"imagebuilder", "infrastructure-configuration">>,
    <<"iot", "authorizer">>, <<"iot", "billinggroup">>,
    <<"iot", "cacert">>, <<"iot", "cert">>, <<"iot", "client">>,
    <<"iot", "dimension">>, <<"iot", "index">>, <<"iot", "job">>,
    <<"iot", "mitigationaction">>, <<"iot", "otaupdate">>,
    <<"iot", "policy">>, <<"iot", "provisioningtemplate">>,
    <<"iot", "rolealias">>, <<"iot", "rule">>, <<"iot", "scheduledaudit">>,
    <<"iot", "securityprofile">>, <<"iot", "stream">>, <<"iot", "thing">>,
    <<"iot", "thinggroup">>, <<"iot", "thingtype">>, <<"iot", "topic">>,
    <<"iot", "topicfilter">>, <<"iot", "tunnel">>,
    <<"iot1click", "devices">>, <<"iot1click", "projects">>,
    <<"iotanalytics", "channel">>, <<"iotanalytics", "dataset">>,
    <<"iotanalytics", "datastore">>, <<"iotanalytics", "pipeline">>,
    <<"iotevents", "detectorModel">>, <<"iotevents", "input">>,
    <<"iotsitewise", "access-policy">>, <<"iotsitewise", "asset">>,
    <<"iotsitewise", "asset-model">>, <<"iotsitewise", "dashboard">>,
    <<"iotsitewise", "gateway">>, <<"iotsitewise", "portal">>,
    <<"iotsitewise", "project">>,
    <<"iotthingsgraph", "Deployment">>, <<"iotthingsgraph", "System">>,
    <<"iotthingsgraph", "Workflow">>,
    <<"kafka", "cluster">>,
    <<"kendra", "index">>,
    <<"kinesis", "stream">>,
    <<"kinesisanalytics", "application">>,
    <<"kinesisvideo", "channel">>, <<"kinesisvideo", "stream">>,
    <<"kms", "alias">>,
    <<"lambda", "event-source-mapping">>,
    <<"lex", "bot">>, <<"lex", "bot-channel">>, <<"lex", "intent">>,
    <<"lex", "slottype">>,
    <<"license-manager", "license-configuration">>,
    <<"lightsail", "CloudFormationStackRecord">>, <<"lightsail", "Disk">>,
    <<"lightsail", "DiskSnapshot">>, <<"lightsail", "Domain">>,
    <<"lightsail", "ExportSnapshotRecord">>, <<"lightsail", "Instance">>,
    <<"lightsail", "InstanceSnapshot">>, <<"lightsail", "KeyPair">>,
    <<"lightsail", "LoadBalancer">>,
    <<"lightsail", "LoadBalancerTlsCertificate">>,
    <<"lightsail", "PeeredVpc">>, <<"lightsail", "RelationalDatabase">>,
    <<"lightsail", "RelationalDatabaseSnapshot">>,
    <<"lightsail", "StaticIp">>,
    <<"machinelearning", "batchprediction">>,
    <<"machinelearning", "datasource">>,
    <<"machinelearning", "evaluation">>, <<"machinelearning", "mlmodel">>,
    <<"macie2", "classification-job">>,
    <<"macie2", "custom-data-identifier">>,
    <<"macie2", "findings-filter">>, <<"macie2", "member">>,
    <<"managedblockchain", "invitations">>,
    <<"managedblockchain", "members">>,
    <<"managedblockchain", "networks">>, <<"managedblockchain", "nodes">>,
    <<"managedblockchain", "proposals">>,
    <<"mediaconnect", "entitlement">>, <<"mediaconnect", "flow">>,
    <<"mediaconnect", "output">>, <<"mediaconnect", "source">>,
    <<"mediaconvert", "certificates">>, <<"mediaconvert", "jobTemplates">>,
    <<"mediaconvert", "jobs">>, <<"mediaconvert", "presets">>,
    <<"mediaconvert", "queues">>,
    <<"medialive", "input">>, <<"medialive", "inputDevice">>,
    <<"medialive", "inputSecurityGroup">>, <<"medialive", "multiplex">>,
    <<"medialive", "offering">>, <<"medialive", "reservation">>,
    <<"mediapackage", "channels">>, <<"mediapackage", "origin_endpoints">>,
    <<"mediapackage-vod", "assets">>,
    <<"mediapackage-vod", "packaging-configurations">>,
    <<"mediapackage-vod", "packaging-groups">>,
    <<"mediastore", "container">>,
    <<"mediatailor", "playbackConfiguration">>,
    <<"mgh", "progressUpdateStream">>,
    <<"mobilehub", "project">>,
    <<"mobiletargeting", "apps">>, <<"mobiletargeting", "recommenders">>,
    <<"mobiletargeting", "templates">>,
    <<"mq", "broker">>, <<"mq", "configuration">>,
    <<"networkmanager", "device">>, <<"networkmanager", "global-network">>,
    <<"networkmanager", "link">>, <<"networkmanager", "site">>,
    <<"opsworks", "stack">>,
    <<"organizations", "account">>, <<"organizations", "handshake">>,
    <<"organizations", "organization">>, <<"organizations", "ou">>,
    <<"organizations", "policy">>, <<"organizations", "root">>,
    <<"outposts", "order">>, <<"outposts", "outpost">>,
    <<"outposts", "site">>,
    <<"personalize", "algorithm">>, <<"personalize", "campaign">>,
    <<"personalize", "dataset">>, <<"personalize", "dataset-group">>,
    <<"personalize", "dataset-import-job">>,
    <<"personalize", "event-tracker">>,
    <<"personalize", "feature-transformation">>,
    <<"personalize", "recipe">>, <<"personalize", "schema">>,
    <<"personalize", "solution">>,
    <<"pi", "metrics">>,
    <<"polly", "lexicon">>,
    <<"qldb", "ledger">>, <<"qldb", "stream">>,
    <<"quicksight", "assignment">>, <<"quicksight", "dashboard">>,
    <<"quicksight", "group">>, <<"quicksight", "template">>,
    <<"quicksight", "user">>,
    <<"ram", "permission">>, <<"ram", "resource-share">>,
    <<"ram", "resource-share-invitation">>,
    <<"rds", "cluster-endpoint">>, <<"rds", "cluster-pg">>,
    <<"rds", "cluster-snapshot">>, <<"rds", "db-proxy">>, <<"rds", "es">>,
    <<"rds", "pg">>, <<"rds", "ri">>, <<"rds", "secgrp">>,
    <<"rds", "target">>, <<"rds", "target-group">>,
    <<"rds-db", "dbuser">>,
    <<"redshift", "cluster">>, <<"redshift", "dbgroup">>,
    <<"redshift", "dbname">>, <<"redshift", "dbuser">>,
    <<"redshift", "eventsubscription">>,
    <<"redshift", "hsmclientcertificate">>,
    <<"redshift", "hsmconfiguration">>, <<"redshift", "parametergroup">>,
    <<"redshift", "securitygroup">>,
    <<"redshift", "securitygroupingress">>, <<"redshift", "snapshot">>,
    <<"redshift", "snapshotcopygrant">>,
    <<"redshift", "snapshotschedule">>, <<"redshift", "subnetgroup">>,
    <<"rekognition", "collection">>, <<"rekognition", "project">>,
    <<"rekognition", "streamprocessor">>,
    <<"resource-groups", "group">>,
    <<"robomaker", "deployment-fleet">>, <<"robomaker", "deployment-job">>,
    <<"robomaker", "robot">>, <<"robomaker", "robot-application">>,
    <<"robomaker", "simulation-application">>,
    <<"robomaker", "simulation-job">>,
    <<"robomaker", "simulation-job-batch">>,
    <<"route53", "change">>, <<"route53", "delegationset">>,
    <<"route53", "queryloggingconfig">>,
    <<"route53resolver", "resolver-endpoint">>,
    <<"route53resolver", "resolver-rule">>,
    <<"s3", "accesspoint">>, <<"s3", "job">>,
    <<"sagemaker", "algorithm">>, <<"sagemaker", "app">>,
    <<"sagemaker", "automl-job">>, <<"sagemaker", "code-repository">>,
    <<"sagemaker", "compilation-job">>, <<"sagemaker", "domain">>,
    <<"sagemaker", "endpoint">>, <<"sagemaker", "endpoint-config">>,
    <<"sagemaker", "experiment">>, <<"sagemaker", "experiment-trial">>,
    <<"sagemaker", "experiment-trial-component">>,
    <<"sagemaker", "flow-definition">>, <<"sagemaker", "human-loop">>,
    <<"sagemaker", "human-task-ui">>,
    <<"sagemaker", "hyper-parameter-tuning-job">>,
    <<"sagemaker", "labeling-job">>, <<"sagemaker", "model">>,
    <<"sagemaker", "model-package">>,
    <<"sagemaker", "monitoring-schedule">>,
    <<"sagemaker", "notebook-instance">>,
    <<"sagemaker", "notebook-instance-lifecycle-config">>,
    <<"sagemaker", "processing-job">>, <<"sagemaker", "training-job">>,
    <<"sagemaker", "transform-job">>, <<"sagemaker", "user-profile">>,
    <<"sagemaker", "workforce">>, <<"sagemaker", "workteam">>,
    <<"savingsplans", "savingsplan">>,
    <<"schemas", "discoverer">>, <<"schemas", "registry">>,
    <<"schemas", "schema">>,
    <<"sdb", "domain">>,
    <<"secretsmanager", "secret">>,
    <<"securityhub", "hub">>, <<"securityhub", "product">>,
    <<"serverlessrepo", "applications">>,
    <<"servicediscovery", "namespace">>, <<"servicediscovery", "service">>,
    <<"ses", "configuration-set">>,
    <<"ses", "custom-verification-email-template">>,
    <<"ses", "dedicated-ip-pool">>,
    <<"ses", "deliverability-test-report">>, <<"ses", "identity">>,
    <<"ses", "receipt-filter">>, <<"ses", "receipt-rule-set">>,
    <<"ses", "template">>,
    <<"shield", "attack">>, <<"shield", "protection">>,
    <<"signer", "">>,
    <<"ssm", "association">>, <<"ssm", "automation-definition">>,
    <<"ssm", "automation-execution">>, <<"ssm", "document">>,
    <<"ssm", "maintenancewindow">>, <<"ssm", "managed-instance">>,
    <<"ssm", "managed-instance-inventory">>, <<"ssm", "opsitem">>,
    <<"ssm", "parameter">>, <<"ssm", "patchbaseline">>,
    <<"ssm", "resource-data-sync">>, <<"ssm", "servicesetting">>,
    <<"ssm", "session">>, <<"ssm", "windowtarget">>,
    <<"ssm", "windowtask">>,
    <<"states", "activity">>,
    <<"storagegateway", "gateway">>, <<"storagegateway", "share">>,
    <<"storagegateway", "tape">>,
    <<"sumerian", "project">>,
    <<"swf", "domain">>,
    <<"synthetics", "canary">>,
    <<"transfer", "server">>, <<"transfer", "user">>,
    <<"trustedadvisor", "checks">>,
    <<"waf", "bytematchset">>, <<"waf", "geomatchset">>,
    <<"waf", "ipset">>, <<"waf", "ratebasedrule">>,
    <<"waf", "regexmatch">>, <<"waf", "regexpatternset">>,
    <<"waf", "rule">>, <<"waf", "rulegroup">>,
    <<"waf", "sizeconstraintset">>, <<"waf", "sqlinjectionset">>,
    <<"waf", "webacl">>, <<"waf", "xssmatchset">>,
    <<"waf-regional", "bytematchset">>, <<"waf-regional", "geomatchset">>,
    <<"waf-regional", "ipset">>, <<"waf-regional", "ratebasedrule">>,
    <<"waf-regional", "regexmatch">>,
    <<"waf-regional", "regexpatternset">>, <<"waf-regional", "rule">>,
    <<"waf-regional", "rulegroup">>,
    <<"waf-regional", "sizeconstraintset">>,
    <<"waf-regional", "sqlinjectionset">>, <<"waf-regional", "webacl">>,
    <<"waf-regional", "xssmatchset">>,
    <<"wellarchitected", "workload">>,
    <<"worklink", "fleet">>,
    <<"workmail", "organization">>,
    <<"workmailmessageflow", "message">>,
    <<"workspaces", "directory">>, <<"workspaces", "workspace">>,
    <<"workspaces", "workspacebundle">>,
    <<"workspaces", "workspaceipgroup">>,
    <<"xray", "group">>, <<"xray", "sampling-rule">>}

\* the <<service, resource type>> keys that are mapped to a link builder
BuilderEntries == {
    <<"access-analyzer", "analyzer">>, <<"acm", "certificate">>,
    <<"amplify", "apps">>, <<"autoscaling", "autoScalingGroup">>,
    <<"backup", "backup-vault">>, <<"cloudfront", "distribution">>,
    <<"codepipeline", "">>, <<"dynamodb", "table">>, <<"ec2", "instance">>,
    <<"ec2", "security-group">>, <<"ec2", "subnet">>, <<"ec2", "vpc">>,
    <<"ecs", "cluster">>, <<"ecs", "service">>, <<"ecs", "task">>,
    <<"ecs", "task-definition">>, <<"eks", "cluster">>,
    <<"eks", "nodegroup">>, <<"firehose", "deliverystream">>,
    <<"iam", "group">>, <<"iam", "oidc-provider">>, <<"iam", "policy">>,
    <<"iam", "role">>, <<"iam", "user">>, <<"kms", "key">>,
    <<"lambda", "function">>, <<"lambda", "layer">>,
    <<"logs", "log-group">>, <<"medialive", "channel">>,
    <<"rds", "cluster">>, <<"rds", "db">>, <<"rds", "og">>,
    <<"rds", "snapshot">>, <<"rds", "subgrp">>,
    <<"route53", "healthcheck">>, <<"route53", "hostedzone">>,
    <<"route53", "trafficpolicy">>, <<"route53", "trafficpolicyinstance">>,
    <<"s3", "">>, <<"sns", "">>, <<"sqs", "">>, <<"states", "execution">>,
    <<"states", "stateMachine">>, <<"wafv2", "global">>,
    <<"wafv2", "regional">>}

\* get console(): the console hostname of a supported partition
SupportedPartitions == {"aws", "aws-us-gov", "aws-cn"}

\* Console with the commercial partition's hostname for every partition
ConsoleCommercialOnly(partition) == "console.aws.amazon.com"

Console(partition) ==
    CASE partition = "aws" -> "console.aws.amazon.com"
      [] partition = "aws-us-gov" -> "console.amazonaws-us-gov.com"
      [] partition = "aws-cn" -> "console.amazonaws.cn"

ErrBadPartition(partition) == "Bad/unsupported AWS partition: " \o partition

\* s.includes(sub)
includes(s, sub) ==
    \E i \in 1..(Len(s) - Len(sub) + 1) : SubSeq(s, i, i + Len(sub) - 1) = sub

\* `${a[i]}`: a missing element is rendered as the text undefined
Elem(a, i) == IF Defined(a, i) THEN a[i + 1] ELSE "undefined"

\* s.replace(/^0+/, '')
StripLeadingZeros(s) ==
    LET nz == {i \in 1..Len(s) : CharAt(s, i) # "0"}
    IN  IF nz = {} THEN "" ELSE SubSeq(s, Min(nz), Len(s))

\* s.replace(/:\*$/, "")
StripWildcard(s) ==
    IF Len(s) >= 2 /\ SubSeq(s, Len(s) - 1, Len(s)) = ":*"
    THEN SubSeq(s, 1, Len(s) - 2)
    ELSE s

\* s.replace(/c/, r), without the g flag: the first c only
ReplaceFirstOnly(s, c, r) ==
    LET n == indexOf(s, c)
    IN  IF n < 0 THEN s ELSE slice(s, 0, n) \o r \o slice(s, n + 1, Len(s))

\* s.replace(/c/g, r) for a single character c and a replacement r that has
\* no substitution pattern ($25 names no capture group, so it stays as it is)
ReplaceAll(s, c, r) == join(split(s, c), r)

\* s.replace(sub, ""): the first occurrence only
RemoveFirst(s, sub) ==
    LET at == {i \in 1..(Len(s) - Len(sub) + 1) :
                  SubSeq(s, i, i + Len(sub) - 1) = sub}
    IN  IF at = {} THEN s
        ELSE SubSeq(s, 1, Min(at) - 1) \o SubSeq(s, Min(at) + Len(sub), Len(s))

\* what a link builder, or consoleLink, gives its caller
Returned(url) == [kind |-> "string", val |-> url]
ReturnedNull == [kind |-> "null", val |-> "null"]
ReturnedOther(what) == [kind |-> "other", val |-> what]
Threw(msg) == [kind |-> "throw", val |-> msg]

\* S3Bucket without the s3 subdomain
S3BucketNoSubdomain(this, c) == "https://" \o c \o "/s3/buckets/" \o this.resource

\* "s3": { "": ... }
S3Bucket(this, c) == "https://s3." \o c \o "/s3/buckets/" \o this.resource

\* "amplify": { "apps": ... }, when the resource includes '/jobs/'
AmplifyJob(this, c) ==
    LET resourceSplit == split(this.resource, "/")
        appID == Elem(resourceSplit, 0)
        branch == Elem(resourceSplit, 2)
        job == StripLeadingZeros(resourceSplit[Len(resourceSplit)])
    IN  "https://" \o this.region \o "." \o c \o "/amplify/home?region=" \o
        this.region \o "#/" \o appID \o "/" \o branch \o "/" \o job

\* the amplify apps builder returns null without reading this.console
AmplifyReturnsNull(this) == ~includes(this.resource, "/jobs/")

\* "autoscaling": { "autoScalingGroup": ... }
AutoScalingGroup(this, c) ==
    LET groupName == Elem(split(this.resource, "/"), 1)
    IN  "https://" \o this.region \o "." \o c \o "/ec2/home?region=" \o
        this.region \o "#AutoScalingGroupDetails:id=" \o groupName \o
        ";view=details"

\* "eks": { "nodegroup": ... }
EksNodegroup(this, c) ==
    LET arr == split(this.resource, "/")
        clusterName == Elem(arr, 0)
        nodegroupName == Elem(arr, 1)
    IN  "https://" \o c \o "/eks/home?region=" \o this.region \o
        "#/clusters/" \o clusterName \o "/nodegroups/" \o nodegroupName

\* "lambda": { "layer": ... }: ${this.qualifiers[1] || 1}
LambdaLayer(this, c) ==
    LET q == Qualifiers(this)
        version == IF Defined(q, 1) /\ q[2] # "" THEN q[2] ELSE "1"
    IN  "https://" \o this.region \o "." \o c \o "/lambda/home?region=" \o
        this.region \o "#/layers/" \o Elem(q, 0) \o "/versions/" \o version

\* "logs": { "log-group": ... }
LogGroupName(resource) ==
    ReplaceAll(ReplaceAll(StripWildcard(resource), "#", "$2523"), "/", "$252F")

LogsLogGroup(this, c) ==
    "https://" \o this.region \o "." \o c \o "/cloudwatch/home?region=" \o
    this.region \o "#logsV2:log-groups/log-group/" \o
    LogGroupName(this.resource)

\* "wafv2": { "global": ..., "regional": ... }
Wafv2(this, c, region) ==
    "https://" \o c \o "/wafv2/homev2/web-acl/" \o
    RemoveFirst(this.resource, "webacl/") \o "/overview?region=" \o region

\* the link a builder of the table assembles; c is this.console
Template(this, c) ==
    LET key == <<this.service, this.resource_type>> IN
      CASE key = <<"access-analyzer", "analyzer">> ->   \* line 164
           "https://" \o this.region \o "." \o c \o
           "/access-analyzer/home?region=" \o this.region \o "#/analyzer/"
           \o this.resource
      [] key = <<"acm", "certificate">> ->   \* line 167
           "https://" \o c \o "/acm/home?region=" \o this.region \o "#/?id="
           \o this.resource
      [] key = <<"backup", "backup-vault">> ->   \* line 230
           "https://" \o c \o "/backup/home?region=" \o this.region \o
           "#/backupvaults/details/" \o this.resource
      [] key = <<"cloudfront", "distribution">> ->   \* line 264
           "https://" \o c \o "/cloudfront/v4/home#/distributions/" \o
           this.resource
      [] key = <<"codepipeline", "">> ->   \* line 310
           "https://" \o this.region \o "." \o c \o
           "/codesuite/codepipeline/pipelines/" \o this.resource \o
           "/view?region=" \o this.region
      [] key = <<"dynamodb", "table">> ->   \* line 426
           "https://" \o this.region \o "." \o c \o
           "/dynamodbv2/home?region=" \o this.region \o "#table?name=" \o
           this.resource
      [] key = <<"ec2", "instance">> ->   \* line 437
           "https://" \o this.region \o "." \o c \o "/ec2/v2/home"
      [] key = <<"ec2", "security-group">> ->   \* line 452
           "https://" \o this.region \o "." \o c \o "/vpc/home?region=" \o
           this.region \o "#SecurityGroup:groupId=" \o this.resource
      [] key = <<"ec2", "subnet">> ->   \* line 455
           "https://" \o this.region \o "." \o c \o "/vpc/home?region=" \o
           this.region \o "#SubnetDetails:subnetId=" \o this.resource
      [] key = <<"ec2", "vpc">> ->   \* line 465
           "https://" \o this.region \o "." \o c \o "/vpc/home?region=" \o
           this.region \o "#VpcDetails:VpcId=" \o this.resource
      [] key = <<"ecs", "cluster">> ->   \* line 477
           "https://" \o this.region \o "." \o c \o "/ecs/v2/clusters/" \o
           this.resource \o "?region=" \o this.region
      [] key = <<"ecs", "service">> ->   \* line 479
           "https://" \o this.region \o "." \o c \o "/ecs/v2/clusters/" \o
           PathAllButLast(this) \o "/services/" \o PathLast(this) \o
           "?region=" \o this.region
      [] key = <<"ecs", "task">> ->   \* line 480
           "https://" \o this.region \o "." \o c \o "/ecs/v2/clusters/" \o
           PathAllButLast(this) \o "/tasks/" \o PathLast(this) \o "?region="
           \o this.region
      [] key = <<"ecs", "task-definition">> ->   \* line 481
           "https://" \o this.region \o "." \o c \o
           "/ecs/v2/task-definitions/" \o this.resource \o "/" \o
           this.resource_revision \o "?region=" \o this.region
      [] key = <<"eks", "cluster">> ->   \* line 485
           "https://" \o c \o "/eks/home?region=" \o this.region \o
           "#/clusters/" \o this.resource
      [] key = <<"firehose", "deliverystream">> ->   \* line 535
           "https://" \o c \o "/firehose/home?region=" \o this.region \o
           "#/details/" \o this.resource \o "/monitoring"
      [] key = <<"iam", "group">> ->   \* line 611
           "https://" \o c \o "/iamv2/home#/groups/details/" \o
           PathLast(this)
      [] key = <<"iam", "oidc-provider">> ->   \* line 614
           "https://" \o c \o "/iam/home?#/providers/" \o String(this)
      [] key = <<"iam", "policy">> ->   \* line 615
           "https://" \o c \o "/iam/home?#/policies/" \o String(this)
      [] key = <<"iam", "role">> ->   \* line 616
           "https://" \o c \o "/iam/home?#/roles/" \o PathLast(this)
      [] key = <<"iam", "user">> ->   \* line 620
           "https://" \o c \o "/iam/home?#/users/" \o this.resource
      [] key = <<"kms", "key">> ->   \* line 701
           "https://" \o c \o "/kms/home?region=" \o this.region \o
           "#/kms/keys/" \o this.resource
      [] key = <<"lambda", "function">> ->   \* line 705
           "https://" \o this.region \o "." \o c \o "/lambda/home?region="
           \o this.region \o "#/functions/" \o this.resource
      [] key = <<"medialive", "channel">> ->   \* line 769
           "https://" \o this.region \o "." \o c \o
           "/medialive/home?region=" \o this.region \o "#/channels/" \o
           this.resource
      [] key = <<"rds", "cluster">> ->   \* line 866
           "https://" \o c \o "/rds/home?region=" \o this.region \o
           "#database:id=" \o this.resource \o ";is-cluster=true"
      [] key = <<"rds", "db">> ->   \* line 870
           "https://" \o c \o "/rds/home?region=" \o this.region \o
           "#database:id=" \o this.resource
      [] key = <<"rds", "og">> ->   \* line 873
           "https://" \o c \o "/rds/home?region=" \o this.region \o
           "#option-group-details:option-group-name=" \o this.resource
      [] key = <<"rds", "snapshot">> ->   \* line 877
           "https://" \o c \o "/rds/home?region=" \o this.region \o
           "#db-snapshot:id=" \o this.resource
      [] key = <<"rds", "subgrp">> ->   \* line 878
           "https://" \o c \o "/rds/home?region=" \o this.region \o
           "#db-subnet-group:id=" \o this.resource
      [] key = <<"route53", "healthcheck">> ->   \* line 921
           "https://" \o c \o "/route53/healthchecks/home"
      [] key = <<"route53", "hostedzone">> ->   \* line 922
           "https://" \o c \o "/route53/home?#resource-record-sets:" \o
           this.resource
      [] key = <<"route53", "trafficpolicy">> ->   \* line 924
           "https://" \o c \o "/route53/trafficflow/home#/policy/" \o
           this.resource
      [] key = <<"route53", "trafficpolicyinstance">> ->   \* line 925
           "https://" \o c \o
           "/route53/trafficflow/home#/modify-records/edit/" \o
           this.resource
      [] key = <<"sns", "">> ->   \* line 1010
           "https://" \o c \o "/sns/v3/home?region=" \o this.region \o
           "#/topic/" \o this.arn
      [] key = <<"sqs", "">> ->   \* line 1013
           "https://" \o this.region \o "." \o c \o "/sqs/v2/home?region="
           \o this.region \o "#/queues/https%3A%2F%2Fsqs." \o this.region \o
           ".amazonaws.com%2F" \o this.account \o "%2F" \o this.resource
      [] key = <<"states", "execution">> ->   \* line 1034
           "https://" \o this.region \o "." \o c \o "/states/home?region="
           \o this.region \o "#/v2/executions/details/" \o String(this)
      [] key = <<"states", "stateMachine">> ->   \* line 1035
           "https://" \o this.region \o "." \o c \o "/states/home?region="
           \o this.region \o "#/statemachines/view/" \o String(this)
      [] key = <<"s3", "">> -> S3Bucket(this, c)
      [] key = <<"amplify", "apps">> -> AmplifyJob(this, c)
      [] key = <<"autoscaling", "autoScalingGroup">> -> AutoScalingGroup(this, c)
      [] key = <<"eks", "nodegroup">> -> EksNodegroup(this, c)
      [] key = <<"lambda", "layer">> -> LambdaLayer(this, c)
      [] key = <<"logs", "log-group">> -> LogsLogGroup(this, c)
      [] key = <<"wafv2", "global">> -> Wafv2(this, c, "global")
      [] key = <<"wafv2", "regional">> -> Wafv2(this, c, this.region)

----------------------------------------------------------------------------
(* get consoleLink() *)

\* this.prefix != "arn", with the mutant that compares ignoring case
BadPrefixIgnoreCase(prefix) == prefix \notin {"arn", "ARN", "Arn"}

BadPrefix(prefix) == prefix # "arn"

ErrBadPrefix(prefix) == "Bad ARN prefix " \o prefix
ErrUnknownService(service) == "AWS service " \o service \o " unknown"
ErrUnsupported(service, type) ==
    "AWS service " \o service \o " resource type " \o type \o " not supported"
ErrTypeError == "TypeError"

\* The table and its sub-tables are object literals, so a key they do not
\* have is looked up in Object.prototype: these keys are never undefined.
ObjectPrototypeKeys == {
    "constructor", "toString", "toLocaleString", "valueOf", "hasOwnProperty",
    "isPrototypeOf", "propertyIsEnumerable", "__proto__", "__defineGetter__",
    "__defineSetter__", "__lookupGetter__", "__lookupSetter__"}

\* the properties of the built-in functions Object.prototype holds: their own,
\* those of Function.prototype and of Object.prototype, and Object's statics
FunctionKeys == ObjectPrototypeKeys \cup {
    "length", "name", "prototype", "apply", "bind", "call", "caller",
    "arguments", "assign", "create", "defineProperties", "defineProperty",
    "entries", "freeze", "fromEntries", "getOwnPropertyDescriptor",
    "getOwnPropertyDescriptors", "getOwnPropertyNames",
    "getOwnPropertySymbols", "getPrototypeOf", "groupBy", "hasOwn", "is",
    "isExtensible", "isFrozen", "isSealed", "keys", "preventExtensions",
    "seal", "setPrototypeOf", "values"}

\* template(this) for a builder of the table: the builder reads this.console,
\* which throws for an unsupported partition, unless it returns null first
CallBuilder(this) ==
    IF this.service = "amplify" /\ this.resource_type = "apps" /\
       AmplifyReturnsNull(this)
    THEN ReturnedNull
    ELSE IF this.partition \notin SupportedPartitions
    THEN Threw(ErrBadPartition(this.partition))
    ELSE Returned(Template(this, Console(this.partition)))

\* template(this) for template = Object.prototype[key]: a plain call, so the
\* function's own this value is undefined
CallInherited(key) ==
    CASE key = "constructor" -> ReturnedOther("the ARN object")
      [] key = "toString" -> Returned("[object Undefined]")
      [] OTHER -> Threw(ErrTypeError)

\* The outcomes of reading consoleLink.  They are one outcome, except where
\* both lookups end in a built-in function's property, whose value depends
\* on the function and the engine.
ConsoleLinkOutcomes(this) ==
    LET unsupported == Threw(ErrUnsupported(this.service, this.resource_type))
        key == <<this.service, this.resource_type>>
    IN  IF BadPrefix(this.prefix) THEN {Threw(ErrBadPrefix(this.prefix))}
        ELSE IF this.service \in ServiceKeys
        THEN IF key \in BuilderEntries THEN {CallBuilder(this)}
             ELSE IF key \in NullEntries THEN {unsupported}
             ELSE IF this.resource_type \in ObjectPrototypeKeys
             THEN {CallInherited(this.resource_type)}
             ELSE {unsupported}
        ELSE IF this.service = "__proto__"
        THEN IF this.resource_type \in ObjectPrototypeKeys \ {"__proto__"}
             THEN {CallInherited(this.resource_type)}
             ELSE {unsupported}
        ELSE IF this.service \in ObjectPrototypeKeys
        THEN IF this.resource_type \in FunctionKeys
             THEN {unsupported, Threw(ErrTypeError),
                   ReturnedOther("a built-in's result")}
             ELSE {unsupported}
        ELSE {Threw(ErrUnknownService(this.service))}

\* the fields of `this` after get consoleLink(): the getter and the builders
\* assign to locals only; the mutant has a builder keep the last path
\* segment in this.resource
AfterConsoleLinkKeepsLastSegment(this) ==
    [this EXCEPT !.resource = LET a == split(this.resource, "/")
                              IN  a[Len(a)]]

AfterConsoleLink(this) == this

\* get console()
ConsoleOutcome(this) ==
    IF this.partition \in SupportedPartitions
    THEN Returned(Console(this.partition))
    ELSE Threw(ErrBadPartition(this.partition))

----------------------------------------------------------------------------
(* The arguments the constructor is called with *)

RECURSIVE Strings(_, _)
\* the strings over an alphabet of at most n characters
Strings(alphabet, n) ==
    IF n = 0 THEN {""}
    ELSE LET shorter == Strings(alphabet, n - 1)
         IN  shorter \cup {s \o c : s \in shorter, c \in alphabet}

RECURSIVE Repeat(_, _)
Repeat(s, n) ==
    IF n = 0 THEN ""
    ELSE IF n % 2 = 0 THEN LET h == Repeat(s, n \div 2) IN h \o h
    ELSE s \o Repeat(s, n - 1)

\* resource segments: every shape of colons and slashes, empty parts included
Rests == Strings({"a", "/", ":"}, MaxRest)

Regions == {"", "r-1", "R", "r.1", "r 1", "r<"}

TokenHeaders == {"arn:p:s:" \o r \o ":a:" : r \in Regions} \cup {":::::"}

\* too few tokens (Rests alone) and six or more (a header and a rest)
TokenInputs == Rests \cup {h \o r : h \in TokenHeaders, r \in Rests}

LinkRests == {"bucket", ":bucket", "/bucket", "apps/app1/branches/main",
              "apps/app1/branches/main/jobs/0007", "apps/app1:2"}

LinkInputs ==
    {prefix \o ":" \o partition \o ":" \o service \o ":" \o region \o
     ":123456789012:" \o rest :
        prefix \in {"arn", "ARN"},
        partition \in {"aws", "aws-us-gov", "aws-cn", "aws-iso"},
        service \in {"s3", "amplify", "a4b", "nosuch", "constructor"},
        region \in {"", "us-east-1"},
        rest \in LinkRests}

\* resource types and services that are not written in the table but are
\* properties every JavaScript object inherits
InheritedInputs ==
    {"arn:aws:" \o service \o ":us-east-1:123456789012:" \o type \o "/x" :
        service \in {"s3", "a4b", "__proto__"},
        type \in {"constructor", "toString", "valueOf", "__proto__"}}

\* an ARN for every builder of the table, in both partitions' kinds, with and
\* without a region, the resource with and without a path, after a '/' and
\* after a ':'
BuilderInputs ==
    {"arn:" \o partition \o ":" \o key[1] \o ":" \o region \o
     ":123456789012:" \o key[2] \o delimiter \o resource :
        key \in BuilderEntries,
        partition \in {"aws", "aws-cn"},
        region \in {"", "eu-west-1"},
        delimiter \in {"/", ":"},
        resource \in {"n1", "n1/n2"}}

\* log groups whose names have slashes, hashes and wildcards
LogGroupInputs ==
    {"arn:aws:logs:us-east-1:123456789012:log-group:" \o name :
        name \in {"plain", "/aws/lambda/f:*", "a#b/c#d", "g:*", "g:*:*",
                  "g:*:x:*", "g:*:x", "*", ":*"}}

\* inputs that fail more than one of the constructor's checks
SeveralFaults == {
    "arn:aws:s3:US-WEST",
    "arn:p:s:R:a",
    "arn:p:s:R",
    "a<b",
    "arn:aws:s3:US WEST",
    "arn:aws:s3:r<:a:b",
    "arn:aws:s3:R<:a:b",
    "arn:aws:s3:R:a:b"}

\* the inputs the documentation and the tests name
Examples == {
    "foo",
    "arn:aws:s3:::abcdefgh1234",
    "arn:aws:s3:US WEST:1:bucket",
    "arn:p:s:r:a:rid",
    "arn:p:s:r:a:rtype/rid",
    "arn:p:s:r:a:rtype:rid",
    "arn:p:s:r:a:rtype:q1:q2:q3",
    "arn:p:s:r:a:rtype/rid:rev",
    "arn:p:s:r:a:rtype/rid/x:rev:2",
    "arn:aws:iam::1:user/a+b=c,d.e@f_g*h#i-j",
    "arn:partition:service:region:account-id:resource-id",
    "arn:partition:service:region:account-id:resource-type/resource-id",
    "arn:partition:service:region:account-id:/resource-type/resource-id",
    "arn:partition:service:region:account-id:resource-type:resource-id",
    "arn:aws:s3:::<script>"}

PaddedInputs ==
    UNION {{" " \o x, x \o "\n", "\t " \o x \o " \r"} :
              x \in Examples \cup {"a b", ""}}

LongInputs == {
    Repeat("a", LengthLimit),
    Repeat("a", LengthLimit + 1),
    ":::::" \o Repeat("a", LengthLimit - 5),
    ":::::" \o Repeat("a", LengthLimit - 4),
    ":::A::" \o Repeat("a", LengthLimit - 5),
    "  " \o Repeat("a", LengthLimit - 1) \o " ",
    " " \o Repeat("a", LengthLimit) \o "\n",
    "<" \o Repeat("a", LengthLimit)}

StringInputs ==
    TokenInputs \cup LinkInputs \cup InheritedInputs \cup BuilderInputs \cup
    LogGroupInputs \cup SeveralFaults \cup Examples \cup PaddedInputs \cup
    LongInputs

\* null, 123, [] and {} with their typeof
NonStringArgs == {[t |-> "object", v |-> "null"], [t |-> "number", v |-> "123"],
                  [t |-> "object", v |-> "[]"], [t |-> "object", v |-> "{}"]}

Args == {[t |-> "string", v |-> s] : s \in StringInputs} \cup NonStringArgs

----------------------------------------------------------------------------
(* The state machine: construct an ARN, then read its getters *)

NoObject == [arn |-> "", prefix |-> "", partition |-> "", service |-> "",
             region |-> "", account |-> "", resource_revision |-> "",
             resource_type |-> "", resource |-> "", hasPath |-> FALSE]

NoRead == [getter |-> "", kind |-> "", val |-> ""]

Read(getter, outcome) ==
    [getter |-> getter, kind |-> outcome.kind, val |-> outcome.val]

NotYetRead == [kind |-> "", val |-> "", reads |-> 0]

\* the caller's note of the reads of consoleLink so far
Noted(before, outcome) ==
    IF before.reads = 0
    THEN [kind |-> outcome.kind, val |-> outcome.val, reads |-> 1]
    ELSE [before EXCEPT !.reads = 2]

Init ==
    /\ arg \in Args
    /\ pc = "new"
    /\ obj = NoObject
    /\ thrown = ""
    /\ ret = NoRead
    /\ first = NotYetRead
    /\ argv = <<>>
    /\ idx = 0
    /\ printed = <<>>

\* new ARN(arg)
Construct ==
    /\ pc = "new"
    /\ LET r == ARN(arg)
       IN  IF r.threw # ""
           THEN /\ pc' = "threw"
                /\ thrown' = r.threw
                /\ obj' = obj
           ELSE /\ pc' = "constructed"
                /\ thrown' = thrown
                /\ obj' = r.this
    /\ UNCHANGED <<arg, ret, first, argv, idx, printed>>

GetString ==
    /\ pc = "constructed"
    /\ ret' = Read("string", Returned(String(obj)))
    /\ UNCHANGED <<arg, pc, obj, thrown, first, argv, idx, printed>>

GetQualifiers ==
    /\ pc = "constructed"
    /\ ret' = [getter |-> "qualifiers", kind |-> "array",
               val |-> Qualifiers(obj)]
    /\ UNCHANGED <<arg, pc, obj, thrown, first, argv, idx, printed>>

GetPathAllButLast ==
    /\ pc = "constructed"
    /\ ret' = Read("pathAllButLast", Returned(PathAllButLast(obj)))
    /\ UNCHANGED <<arg, pc, obj, thrown, first, argv, idx, printed>>

GetPathLast ==
    /\ pc = "constructed"
    /\ ret' = Read("pathLast", Returned(PathLast(obj)))
    /\ UNCHANGED <<arg, pc, obj, thrown, first, argv, idx, printed>>

GetConsole ==
    /\ pc = "constructed"
    /\ ret' = Read("console", ConsoleOutcome(obj))
    /\ UNCHANGED <<arg, pc, obj, thrown, first, argv, idx, printed>>

GetConsoleLink ==
    /\ pc = "constructed"
    /\ \E outcome \in ConsoleLinkOutcomes(obj) :
           /\ ret' = Read("consoleLink", outcome)
           /\ first' = Noted(first, outcome)
    /\ obj' = AfterConsoleLink(obj)
    /\ UNCHANGED <<arg, pc, thrown, argv, idx, printed>>

Next ==
    \/ Construct
    \/ GetString
    \/ GetQualifiers
    \/ GetPathAllButLast
    \/ GetPathLast
    \/ GetConsole
    \/ GetConsoleLink

Spec == Init /\ [][Next]_vars

----------------------------------------------------------------------------
(* The command line: node link2aws.js a1 .. an *)

\* arguments whose link resolves, whose parse fails, whose service is unknown
\* and whose builder returns null
CliArgs == {"arn:aws:s3:::abcdefgh1234",
            "foo",
            "arn:aws:nosuch:us-east-1:123456789012:x",
            "arn:aws:amplify:us-east-1:123456789012:apps/app1/branches/main"}

RECURSIVE ArgLists(_)
\* the lists of at most n arguments
ArgLists(n) ==
    IF n = 0 THEN {<<>>}
    ELSE LET shorter == ArgLists(n - 1)
         IN  shorter \cup {Append(l, a) : l \in shorter, a \in CliArgs}

\* process.argv: the interpreter, the script, then the arguments
ProcessArgvs == {<<"node", "link2aws.js">> \o l : l \in ArgLists(MaxArgs)}

\* new ARN(text).consoleLink, for the text of a command-line argument
LinkOfArgument(text) ==
    LET r == ARN([t |-> "string", v |-> text])
    IN  IF r.threw # "" THEN {Threw(r.threw)} ELSE ConsoleLinkOutcomes(r.this)

\* console.log of what consoleLink returned, console.error of what was
\* thrown, in iteration n of the loop
Written(n, outcome) ==
    [stream |-> IF outcome.kind = "throw" THEN "stderr" ELSE "stdout",
     index |-> n,
     kind |-> outcome.kind,
     val |-> outcome.val]

\* the loop's index after an iteration, with the mutant in which an
\* exception leaves the loop
AfterIterationThrowLeaves(n, outcome, length) ==
    IF outcome.kind = "throw" THEN length ELSE n + 1

AfterIteration(n, outcome, length) == n + 1

InitCLI ==
    /\ arg = [t |-> "string", v |-> ""]
    /\ pc = "cli"
    /\ obj = NoObject
    /\ thrown = ""
    /\ ret = NoRead
    /\ first = NotYetRead
    /\ argv \in ProcessArgvs
    /\ idx = 2
    /\ printed = <<>>

\* one iteration of the for loop: try { console.log(...) } catch { console.error }
CliIteration ==
    /\ pc = "cli"
    /\ idx < Len(argv)
    /\ \E outcome \in LinkOfArgument(argv[idx + 1]) :
           /\ printed' = Append(printed, Written(idx, outcome))
           /\ idx' = AfterIteration(idx, outcome, Len(argv))
    /\ UNCHANGED <<arg, pc, obj, thrown, ret, first, argv>>

\* the loop condition fails: the script is done
CliExit ==
    /\ pc = "cli"
    /\ ~(idx < Len(argv))
    /\ pc' = "exit"
    /\ UNCHANGED <<arg, obj, thrown, ret, first, argv, idx, printed>>

NextCLI ==
    \/ CliIteration
    \/ CliExit

\* the loop condition holds: ENABLED CliIteration, written as the state
\* predicate it is (every argument has an outcome)
InLoop == pc = "cli" /\ idx < Len(argv)

\* WF_vars(CliIteration), with InLoop for ENABLED <<CliIteration>>_vars
IterationIsTaken == []<>(~InLoop) \/ []<><<CliIteration>>_vars

\* the loop is synchronous: a step that can be taken is taken
SpecCLI ==
    InitCLI /\ [][NextCLI]_vars /\ WF_vars(CliExit) /\ IterationIsTaken

----------------------------------------------------------------------------
(* The properties checked *)

\* the constructor's argument as the claims speak of it
IsString == arg.t = "string"
Input == arg.v
NoSurroundingWhitespace(x) ==
    x = "" \/ (CharAt(x, 1) \notin WhiteSpace /\ CharAt(x, Len(x)) \notin WhiteSpace)

\* the colon-delimited tokens of the trimmed input, and their number
InputTokens == split(trim(Input), ":")
NumTokens == Len(InputTokens)
SixthToken == InputTokens[6]

\* everything after the sixth colon of the trimmed input
AfterSixthToken ==
    LET x == trim(Input)
        colons == Positions(x, ":")
        sixth == CHOOSE i \in colons : Cardinality({j \in colons : j < i}) = 5
    IN  SubSeq(x, sixth + 1, Len(x))

Accepted == pc = "constructed"
Rejected == pc = "threw"
InvalidRegion == Rejected /\ StartsWith(thrown, "Bad region: ")

\* the two inputs whose delimiter the fields cannot tell: an empty type before
\* a colon, and type/id followed by a colon and an empty revision
EmptyTypeColonForm == NumTokens >= 7 /\ SixthToken = ""
EmptyRevisionForm ==
    /\ NumTokens = 7
    /\ InputTokens[7] = ""
    /\ Positions(SixthToken, "/") # {}
    /\ 1 \notin Positions(SixthToken, "/")

(* C1, as claimed: for every accepted string x without surrounding
   whitespace, in any shape and with empty segments allowed, the string
   getter returns exactly x. *)
C1_RoundTripEveryShape ==
    (Accepted /\ ret.getter = "string" /\ NoSurroundingWhitespace(Input))
        => ret.val = Input

(* C1, amended: for every accepted string x without surrounding whitespace,
   except one with seven or more tokens and an empty sixth token and one of
   the shape type/id: with an empty revision, the string getter returns
   exactly x, with the delimiter of x between resource type and resource. *)
C1_RoundTrip ==
    (/\ Accepted
     /\ ret.getter = "string"
     /\ NoSurroundingWhitespace(Input)
     /\ ~EmptyTypeColonForm
     /\ ~EmptyRevisionForm)
        => ret.val = Input

C1_Witness ==
    /\ Accepted
    /\ ret.getter = "string"
    /\ obj.hasPath
    /\ obj.resource_revision # ""
    /\ includes(obj.resource, "/")
    /\ ret.val = Input

\* an amplify 'apps' ARN whose builder returns the null failure marker
AmplifyWithoutJobs ==
    /\ obj.prefix = "arn"
    /\ obj.service = "amplify"
    /\ obj.resource_type = "apps"
    /\ ~includes(obj.resource, "/jobs/")

(* C2: consoleLink either returns a URL string or throws; when the builder
   returns null (an amplify apps ARN without '/jobs/'), it throws the
   UnsupportedResourceType error of a missing or null table entry. *)
C2_ConsoleLinkStringOrThrows ==
    (Accepted /\ ret.getter = "consoleLink")
        => /\ ret.kind \in {"string", "throw"}
           /\ AmplifyWithoutJobs =>
                 /\ ret.kind = "throw"
                 /\ ret.val = "AWS service amplify resource type apps not supported"

(* C3: for prefix 'arn', a partition of {aws, aws-us-gov, aws-cn}, service
   's3' and an empty resource type, consoleLink returns 'https://s3.' + the
   partition's console hostname + '/s3/buckets/' + resource. *)
C3_S3BucketLink ==
    /\ (/\ Accepted
        /\ ret.getter = "consoleLink"
        /\ obj.prefix = "arn"
        /\ obj.partition \in {"aws", "aws-us-gov", "aws-cn"}
        /\ obj.service = "s3"
        /\ obj.resource_type = "")
          => /\ ret.kind = "string"
             /\ ret.val =
                  "https://s3." \o
                  (IF obj.partition = "aws" THEN "console.aws.amazon.com"
                   ELSE IF obj.partition = "aws-us-gov"
                   THEN "console.amazonaws-us-gov.com"
                   ELSE "console.amazonaws.cn") \o
                  "/s3/buckets/" \o obj.resource
    /\ (Accepted /\ ret.getter = "consoleLink" /\
        Input = "arn:aws:s3:::abcdefgh1234")
          => ret.val = "https://s3.console.aws.amazon.com/s3/buckets/abcdefgh1234"

C3_Witness ==
    /\ Accepted
    /\ ret.getter = "consoleLink"
    /\ obj.partition = "aws-cn"
    /\ obj.service = "s3"
    /\ obj.resource_type = ""
    /\ ret.val = "https://s3.console.amazonaws.cn/s3/buckets/bucket"

\* the region field of the input has a space
SpaceInRegion == NumTokens >= 4 /\ includes(InputTokens[4], " ")

(* C4, as claimed: parsing 'arn:aws:s3:US WEST:1:bucket', an ARN whose region
   has a space, fails with the InvalidRegion error. *)
C4_SpaceInRegionIsInvalidRegion ==
    (pc # "new" /\ Input = "arn:aws:s3:US WEST:1:bucket") => InvalidRegion

(* C4, amended: parsing an ARN of at most 2048 characters whose region field
   has a space fails with the InvalidCharacters error: the character check
   rejects the space before the region is looked at. *)
C4_SpaceInRegionIsInvalidCharacters ==
    (pc # "new" /\ IsString /\ Len(trim(Input)) <= 2048 /\ SpaceInRegion)
        => Rejected /\ thrown = "ARN contains invalid characters"

C4_Witness ==
    /\ Input = "arn:aws:s3:US WEST:1:bucket"
    /\ Rejected
    /\ thrown = "ARN contains invalid characters"

\* the region field of the input has a character outside [a-z0-9-]
RegionOutsidePattern ==
    /\ NumTokens >= 6
    /\ \E i \in 1..Len(InputTokens[4]) :
          CharAt(InputTokens[4], i) \notin RegionChars

RegionInvariant == Accepted => TestAll(obj.region, RegionChars)

(* C5, as claimed: a constructed ARN's region is empty or made of [a-z0-9-],
   and any input with 6 or more tokens whose region has another character is
   rejected with InvalidRegion. *)
C5_RegionRejectedEveryInput ==
    /\ RegionInvariant
    /\ (pc # "new" /\ IsString /\ RegionOutsidePattern) => InvalidRegion

(* C5, amended: a constructed ARN's region is empty or made of [a-z0-9-],
   and any input of at most 2048 characters after trimming, made of allowed
   characters only, with 6 or more tokens, whose region has a character
   outside [a-z0-9-] is rejected with InvalidRegion and gives no ARN. *)
C5_RegionInvariant ==
    /\ RegionInvariant
    /\ (/\ pc # "new"
        /\ IsString
        /\ Len(trim(Input)) <= 2048
        /\ TestAll(trim(Input), ArnChars)
        /\ RegionOutsidePattern)
          => /\ InvalidRegion
             /\ obj = NoObject

C5_Witness ==
    /\ Rejected
    /\ NumTokens >= 6
    /\ InputTokens[4] = "r.1"
    /\ thrown = "Bad region: \"r.1\""
    /\ obj = NoObject

\* the sixth token split at its first '/'
BeforeFirstSlash(t) == SubSeq(t, 1, Min(Positions(t, "/")) - 1)
AfterFirstSlash(t) == SubSeq(t, Min(Positions(t, "/")) + 1, Len(t))

SplitAtFirstSlash ==
    /\ obj.resource_type = BeforeFirstSlash(SixthToken)
    /\ obj.resource = AfterFirstSlash(SixthToken)
    /\ obj.hasPath = TRUE

(* C6, as claimed: for every accepted input with exactly 6 tokens whose 6th
   token contains a '/', resource type is what precedes its first '/',
   resource what follows it, and hasPath is true. *)
C6_PathFormEverySlash ==
    (Accepted /\ NumTokens = 6 /\ Positions(SixthToken, "/") # {})
        => SplitAtFirstSlash

(* C6, amended: for every accepted input with exactly 6 tokens whose 6th
   token contains a '/' and does not begin with one, resource type is what
   precedes its first '/', resource what follows it (further slashes
   included), and hasPath is true. *)
C6_PathForm ==
    (/\ Accepted
     /\ NumTokens = 6
     /\ Positions(SixthToken, "/") # {}
     /\ CharAt(SixthToken, 1) # "/")
        => SplitAtFirstSlash

C6_Witness ==
    /\ Accepted
    /\ NumTokens = 6
    /\ SixthToken = "a/a/a"
    /\ obj.resource_type = "a"
    /\ obj.resource = "a/a"
    /\ obj.hasPath

(* C7: an ARN whose 6th token is '/type/id' is tokenized with resource_type
   'type' and resource 'id', the leading slash dropped, and arn keeps the
   original text. *)
C7_LeadingSlashDropped ==
    (/\ Accepted
     /\ NumTokens = 6
     /\ Len(SixthToken) >= 2
     /\ CharAt(SixthToken, 1) = "/"
     /\ Positions(Tail(SixthToken), "/") # {}
     /\ CharAt(SixthToken, 2) # "/")
        => /\ obj.resource_type = BeforeFirstSlash(Tail(SixthToken))
           /\ obj.resource = AfterFirstSlash(Tail(SixthToken))
           /\ obj.arn = trim(Input)

(* C8: for every accepted input with 7 or more tokens whose 6th token has no
   '/', resource type is the 6th token, resource is the remaining tokens
   rejoined with ':', hasPath is false, and qualifiers is the list of the
   remaining tokens in order. *)
C8_ColonForm ==
    (Accepted /\ NumTokens >= 7 /\ Positions(SixthToken, "/") = {})
        => /\ obj.resource_type = SixthToken
           /\ obj.resource = AfterSixthToken
           /\ obj.hasPath = FALSE
           /\ ret.getter = "qualifiers"
                 => ret.val = SubSeq(InputTokens, 7, NumTokens)

C8_Witness ==
    /\ Accepted
    /\ Input = "arn:p:s:r:a:rtype:q1:q2:q3"
    /\ obj.resource = "q1:q2:q3"
    /\ ret.getter = "qualifiers"
    /\ ret.val = <<"q1", "q2", "q3">>

(* C9: for every accepted input with exactly 6 tokens whose 6th token has no
   '/', resource type is the empty string, resource is the whole 6th token,
   and hasPath is false. *)
C9_BareForm ==
    (Accepted /\ NumTokens = 6 /\ Positions(SixthToken, "/") = {})
        => /\ obj.resource_type = ""
           /\ obj.resource = SixthToken
           /\ obj.hasPath = FALSE

C9_Witness ==
    /\ Accepted
    /\ Input = "arn:p:s:r:a:rid"
    /\ obj.resource_type = ""
    /\ obj.resource = "rid"
    /\ ~obj.hasPath

MalformedArn == Rejected /\ thrown = "Bad number of tokens"

(* C10, as claimed: a string of allowed characters is rejected with
   MalformedArn exactly when it has fewer than 6 tokens; with 6 or more it
   passes tokenization. *)
C10_MalformedIffFewTokens ==
    (pc # "new" /\ IsString /\ TestAll(Input, ArnChars))
        => /\ MalformedArn <=> NumTokens < 6
           /\ NumTokens >= 6 => (Accepted \/ InvalidRegion)

(* C10, amended: a string of allowed characters and of at most 2048
   characters is rejected with MalformedArn exactly when it has fewer than 6
   tokens; every such string with 6 or more tokens passes tokenization,
   empty tokens included (it is accepted, or rejected for its region). *)
C10_MalformedIffFewTokensWithinLimit ==
    (pc # "new" /\ IsString /\ TestAll(Input, ArnChars) /\ Len(Input) <= 2048)
        => /\ MalformedArn <=> NumTokens < 6
           /\ NumTokens >= 6 => (Accepted \/ InvalidRegion)

C10_Witness == Input = "foo" /\ MalformedArn

----------------------------------------------------------------------------
(* The constructor's type, character and length checks *)

(* C11: every argument that is not a string (null, a number, an array, an
   object) makes the constructor fail with "ARN must be a string", and no ARN
   object is produced. *)
C11_NonStringRejected ==
    (pc # "new" /\ ~IsString)
        => /\ Rejected
           /\ thrown = "ARN must be a string"
           /\ obj = NoObject

C11_Witness ==
    /\ arg = [t |-> "number", v |-> "123"]
    /\ Rejected
    /\ thrown = "ARN must be a string"

\* the characters the claim lists: a letter, a digit or one of : / + = , . @ _ * # -
ListedChars == Lower \cup Upper \cup Digit \cup
               {":", "/", "+", "=", ",", ".", "@", "_", "*", "#", "-"}

HasUnlistedChar(x) == \E k \in 1..Len(x) : CharAt(x, k) \notin ListedChars

FieldsOfListedChars ==
    \A f \in {"arn", "prefix", "partition", "service", "region", "account",
               "resource_type", "resource", "resource_revision"} :
        ~HasUnlistedChar(obj[f])

(* C12, as claimed: the constructor fails with "ARN contains invalid
   characters" for every string that, trimmed, has a character outside the
   listed set, and no field of a constructed ARN has such a character. *)
C12_UnlistedCharRejectedEveryLength ==
    /\ (pc # "new" /\ IsString /\ HasUnlistedChar(trim(Input)))
           => Rejected /\ thrown = "ARN contains invalid characters"
    /\ Accepted => FieldsOfListedChars

(* C12, amended: the constructor fails with "ARN contains invalid characters"
   for every string that, trimmed, is at most 2048 characters long and has a
   character outside the listed set (a longer one fails with "ARN too long"
   first), and no field of a constructed ARN has such a character. *)
C12_UnlistedCharRejected ==
    /\ (/\ pc # "new"
        /\ IsString
        /\ Len(trim(Input)) <= 2048
        /\ HasUnlistedChar(trim(Input)))
           => /\ Rejected
              /\ thrown = "ARN contains invalid characters"
              /\ obj = NoObject
    /\ Accepted => FieldsOfListedChars

C12_Witness ==
    /\ Input = "arn:aws:s3:::<script>"
    /\ Rejected
    /\ thrown = "ARN contains invalid characters"

(* C13: a string is rejected with "ARN too long" exactly when its length
   after trimming exceeds 2048; a string of at most 2048 characters after
   trimming is never rejected for its length, whatever its length before
   trimming. *)
C13_TooLongIffOverLimit ==
    (pc # "new" /\ IsString)
        => ((Rejected /\ thrown = "ARN too long") <=> Len(trim(Input)) > 2048)

C13_Witness ==
    /\ IsString
    /\ Len(Input) = 2049
    /\ Len(trim(Input)) = 2049
    /\ Rejected
    /\ thrown = "ARN too long"

\* a string longer than the limit only by its surrounding white space
C13_PaddedWitness ==
    /\ IsString
    /\ Len(Input) > 2048
    /\ Len(trim(Input)) = 2048
    /\ Rejected
    /\ thrown # "ARN too long"

----------------------------------------------------------------------------
(* get consoleLink(): the order of its checks *)

ReadConsoleLink == Accepted /\ ret.getter = "consoleLink"

ThrewWith(msg) == ret.kind = "throw" /\ ret.val = msg

(* C14: reading consoleLink on an ARN whose prefix is not exactly "arn"
   (case-sensitive) fails with "Bad ARN prefix <prefix>", whatever its
   partition, service and resource type. *)
C14_BadPrefixFirst ==
    (ReadConsoleLink /\ obj.prefix # "arn")
        => ThrewWith("Bad ARN prefix " \o obj.prefix)

C14_Witness ==
    /\ ReadConsoleLink
    /\ obj.prefix = "ARN"
    /\ obj.partition = "aws"
    /\ obj.service = "s3"
    /\ obj.resource = "bucket"
    /\ ThrewWith("Bad ARN prefix ARN")

(* C15: reading consoleLink on an ARN with prefix "arn" and a partition
   outside aws, aws-us-gov and aws-cn fails with "Bad/unsupported AWS
   partition: <partition>", whatever its service and resource type: the
   partition is checked before the service and the resource type are looked
   up. *)
C15_BadPartitionBeforeLookups ==
    (/\ ReadConsoleLink
     /\ obj.prefix = "arn"
     /\ obj.partition \notin {"aws", "aws-us-gov", "aws-cn"})
        => ThrewWith("Bad/unsupported AWS partition: " \o obj.partition)

\* what does hold: the partition is checked once a builder is called
C15_BadPartitionInBuilder ==
    (/\ ReadConsoleLink
     /\ obj.prefix = "arn"
     /\ obj.partition \notin {"aws", "aws-us-gov", "aws-cn"}
     /\ <<obj.service, obj.resource_type>> \in BuilderEntries
     /\ ~(obj.service = "amplify" /\ AmplifyReturnsNull(obj)))
        => ThrewWith("Bad/unsupported AWS partition: " \o obj.partition)

(* C16: reading consoleLink on an ARN with prefix "arn" and a supported
   partition fails with "AWS service <service> unknown" for every service
   that is not one of the keys written in the link-template table, whatever
   the resource type. *)
C16_UnknownServiceEveryKey ==
    (/\ ReadConsoleLink
     /\ obj.prefix = "arn"
     /\ obj.partition \in {"aws", "aws-us-gov", "aws-cn"}
     /\ obj.service \notin ServiceKeys)
        => ThrewWith("AWS service " \o obj.service \o " unknown")

\* what does hold: the services no JavaScript object inherits
C16_UnknownServiceNotInherited ==
    (/\ ReadConsoleLink
     /\ obj.prefix = "arn"
     /\ obj.service \notin ServiceKeys
     /\ obj.service \notin ObjectPrototypeKeys)
        => ThrewWith("AWS service " \o obj.service \o " unknown")

(* C17: reading consoleLink on an ARN with prefix "arn", a supported
   partition and a service of the table fails with "AWS service <service>
   resource type <type> not supported" both when the resource type is not
   written in the service's sub-table and when it is written there as null:
   never another error, never a value returned. *)
C17_UnsupportedTypeEveryKey ==
    (/\ ReadConsoleLink
     /\ obj.prefix = "arn"
     /\ obj.partition \in {"aws", "aws-us-gov", "aws-cn"}
     /\ obj.service \in ServiceKeys
     /\ <<obj.service, obj.resource_type>> \notin BuilderEntries)
        => ThrewWith("AWS service " \o obj.service \o " resource type " \o
                     obj.resource_type \o " not supported")

\* what does hold: the resource types no JavaScript object inherits
C17_UnsupportedTypeNotInherited ==
    (/\ ReadConsoleLink
     /\ obj.prefix = "arn"
     /\ obj.service \in ServiceKeys
     /\ <<obj.service, obj.resource_type>> \notin BuilderEntries
     /\ obj.resource_type \notin ObjectPrototypeKeys)
        => ThrewWith("AWS service " \o obj.service \o " resource type " \o
                     obj.resource_type \o " not supported")

----------------------------------------------------------------------------
(* Reading consoleLink again *)

(* C19: every read of consoleLink on a parsed ARN gives what the first read
   gave (the same URL, or the same error), and no read changes a field of the
   ARN: the fields stay what the constructor made them. *)
C19_ConsoleLinkIdempotent ==
    /\ ReadConsoleLink => (ret.kind = first.kind /\ ret.val = first.val)
    /\ Accepted => obj = ARN(arg).this

\* consoleLink read a second time: the same link, the fields untouched
C19_Witness ==
    /\ ReadConsoleLink
    /\ first.reads = 2
    /\ ret.kind = "string"
    /\ ret.val = "https://us-east-1.console.aws.amazon.com/amplify/home?region=us-east-1#/app1/main/7"
    /\ obj.resource = "app1/branches/main/jobs/0007"

\* consoleLink read a second time: the same error
C19_WitnessError ==
    /\ ReadConsoleLink
    /\ first.reads = 2
    /\ ThrewWith("AWS service nosuch unknown")

----------------------------------------------------------------------------
(* The revision form *)

RevisionForm ==
    /\ obj.resource_type = BeforeFirstSlash(SixthToken)
    /\ obj.resource = AfterFirstSlash(SixthToken)
    /\ obj.resource_revision = AfterSixthToken
    /\ obj.hasPath

(* C20, as claimed: for every accepted input with 7 or more tokens whose 6th
   token contains a '/', resource type and resource are the 6th token split
   at its first '/', resourceRevision is everything after the 6th token, and
   hasPath is true. *)
C20_RevisionFormEverySlash ==
    (Accepted /\ NumTokens >= 7 /\ Positions(SixthToken, "/") # {})
        => RevisionForm

(* C20, amended: for every accepted input with 7 or more tokens whose 6th
   token contains a '/' and does not begin with one, resource type and
   resource are the 6th token split at its first '/', resourceRevision is
   everything after the 6th token (its colons kept), and hasPath is true. *)
C20_RevisionForm ==
    (/\ Accepted
     /\ NumTokens >= 7
     /\ Positions(SixthToken, "/") # {}
     /\ CharAt(SixthToken, 1) # "/")
        => RevisionForm

C20_Witness ==
    /\ Accepted
    /\ Input = "arn:p:s:r:a:rtype/rid/x:rev:2"
    /\ obj.resource_type = "rtype"
    /\ obj.resource = "rid/x"
    /\ obj.resource_revision = "rev:2"
    /\ obj.hasPath

----------------------------------------------------------------------------
(* The command-line loop *)

\* the k-th line written is about the k-th argument: its link on stdout when
\* it resolves, its error on stderr when it fails
HandledInOrder(k) ==
    /\ printed[k].index = k + 1
    /\ \E outcome \in LinkOfArgument(argv[k + 2]) :
           /\ printed[k].kind = outcome.kind
           /\ printed[k].val = outcome.val
           /\ outcome.kind = "string" => printed[k].stream = "stdout"
           /\ outcome.kind = "throw" => printed[k].stream = "stderr"

CliHandledSoFar ==
    /\ Len(printed) = idx - 2
    /\ \A k \in 1..Len(printed) : HandledInOrder(k)
    /\ pc = "exit" => Len(printed) = Len(argv) - 2

CliDone == pc = "exit"

(* C18: given the arguments a1 .. an, the command-line loop handles every
   argument exactly once and in argument order, writing the link of each
   argument that resolves and the error of each that fails; a failure on one
   argument does not keep the later ones from being handled, and the loop
   always completes. *)
C18_CliLoop == [](CliHandledSoFar) /\ <>CliDone

\* three arguments: the first fails, the second resolves, the third fails
C18_Witness ==
    /\ pc = "exit"
    /\ Len(printed) = 3
    /\ printed[1].stream = "stderr"
    /\ printed[1].val = "Bad number of tokens"
    /\ printed[2].stream = "stdout"
    /\ printed[2].val = "https://s3.console.aws.amazon.com/s3/buckets/abcdefgh1234"
    /\ printed[3].stream = "stderr"
    /\ printed[3].val = "AWS service nosuch unknown"

----------------------------------------------------------------------------
(* The order of the constructor's checks *)

\* the region field of the input is not empty and has a character outside
\* [a-z0-9-]
RegionFieldOutsidePattern ==
    LET region == InputTokens[4]
    IN  region # "" /\ \E k \in 1..Len(region) :
                          CharAt(region, k) \notin Lower \cup Digit \cup {"-"}

\* the error of the first check the input fails, in the order string type,
\* trim, length, allowed characters, token count, region pattern; "" if none
FirstFailingCheck ==
    IF ~IsString THEN "ARN must be a string"
    ELSE IF Len(trim(Input)) > 2048 THEN "ARN too long"
    ELSE IF HasUnlistedChar(trim(Input)) THEN "ARN contains invalid characters"
    ELSE IF NumTokens < 6 THEN "Bad number of tokens"
    ELSE IF RegionFieldOutsidePattern
         THEN "Bad region: \"" \o InputTokens[4] \o "\""
    ELSE ""

(* C21: the constructor's checks run in the order string type, trim, length,
   allowed characters, token count, region pattern, and the first check that
   fails gives the error; an input that fails none is accepted. *)
C21_ValidationOrder ==
    pc # "new"
        => /\ thrown = FirstFailingCheck
           /\ Accepted <=> FirstFailingCheck = ""
           /\ Rejected => obj = NoObject

\* over-long and with a forbidden character
C21_Witness ==
    /\ Rejected
    /\ IsString
    /\ Len(trim(Input)) > 2048
    /\ HasUnlistedChar(trim(Input))
    /\ thrown = "ARN too long"

\* a forbidden character and fewer than 6 tokens
C21_WitnessCharacters ==
    /\ Rejected
    /\ Input = "arn:aws:s3:US WEST"
    /\ thrown = "ARN contains invalid characters"

\* fewer than 6 tokens and an uppercase region
C21_WitnessTokens ==
    /\ Rejected
    /\ Input = "arn:aws:s3:US-WEST"
    /\ thrown = "Bad number of tokens"

----------------------------------------------------------------------------
(* The path accessors *)

ResourceHasSlash == Positions(obj.resource, "/") # {}

(* C22: for every parsed ARN whose resource contains a '/', pathAllButLast,
   a '/' and pathLast make up the resource, and pathLast has no '/'; for every
   parsed ARN whose resource has no '/', pathLast is the whole resource and
   pathAllButLast is empty. *)
C22_PathAccessors ==
    /\ (Accepted /\ ret.getter = "pathLast")
          => /\ Positions(ret.val, "/") = {}
             /\ IF ResourceHasSlash
                THEN PathAllButLast(obj) \o "/" \o ret.val = obj.resource
                ELSE ret.val = obj.resource
    /\ (Accepted /\ ret.getter = "pathAllButLast")
          => IF ResourceHasSlash
             THEN ret.val \o "/" \o PathLast(obj) = obj.resource
             ELSE ret.val = ""

C22_Witness ==
    /\ Accepted
    /\ ret.getter = "pathLast"
    /\ obj.resource = "app1/branches/main/jobs/0007"
    /\ ret.val = "0007"

C22_WitnessAllButLast ==
    /\ Accepted
    /\ ret.getter = "pathAllButLast"
    /\ obj.resource = "app1/branches/main/jobs/0007"
    /\ ret.val = "app1/branches/main/jobs"

C22_WitnessNoPath ==
    /\ Accepted
    /\ ret.getter = "pathAllButLast"
    /\ obj.resource = "abcdefgh1234"
    /\ ret.val = ""

----------------------------------------------------------------------------
(* The links consoleLink returns *)

\* consoleLink returned a string that is a URL: it has a scheme
ReturnedUrl == ReadConsoleLink /\ ret.kind = "string" /\ includes(ret.val, "://")

\* the text between "https://" and the next '/'
Authority(url) ==
    LET rest == SubSeq(url, 9, Len(url))
        slashes == Positions(rest, "/")
    IN  IF slashes = {} THEN rest ELSE SubSeq(rest, 1, Min(slashes) - 1)

\* the console hostname of each supported partition
HostnameOf(partition) ==
    CASE partition = "aws" -> "console.aws.amazon.com"
      [] partition = "aws-us-gov" -> "console.amazonaws-us-gov.com"
      [] partition = "aws-cn" -> "console.amazonaws.cn"
      [] OTHER -> "no console"

(* C23: every URL consoleLink returns starts with "https://" followed by an
   authority that is the console hostname of the ARN's partition, or "s3."
   and that hostname, or the ARN's region, "." and that hostname; no other
   field of the ARN reaches the authority, which has only [a-z0-9.-]. *)
C23_HostnameSafety ==
    ReturnedUrl
        => /\ StartsWith(ret.val, "https://")
           /\ LET host == HostnameOf(obj.partition)
              IN  Authority(ret.val) \in
                      {host, "s3." \o host, obj.region \o "." \o host}
           /\ TestAll(Authority(ret.val), Lower \cup Digit \cup {".", "-"})

C23_Witness ==
    /\ ReturnedUrl
    /\ obj.partition = "aws-cn"
    /\ obj.service = "dynamodb"
    /\ obj.resource = "n1/n2"
    /\ Authority(ret.val) = "eu-west-1.console.amazonaws.cn"

(* C26: whenever consoleLink returns a URL whose authority starts with the
   region, the region is not empty: no returned link has an authority that
   begins with ".", and an ARN with an empty region never resolves to such a
   link. *)
C26_NoEmptyHostnameLabel ==
    ReturnedUrl
        => /\ ~StartsWith(Authority(ret.val), ".")
           /\ Authority(ret.val) = obj.region \o "." \o HostnameOf(obj.partition)
                 => obj.region # ""

\* what does hold: with a region, no label of the authority is empty
C26_NoEmptyLabelWithRegion ==
    (ReturnedUrl /\ obj.region # "")
        => /\ ~StartsWith(Authority(ret.val), ".")
           /\ ~includes(Authority(ret.val), "..")

(* C27: every URL consoleLink returns is assembled from values that exist: a
   builder that indexes into a split of the resource never interpolates a
   missing element, so no returned link has the text "undefined" unless the
   ARN itself has it. *)
C27_NoUndefinedParts ==
    (ReturnedUrl /\ ~includes(obj.arn, "undefined"))
        => ~includes(ret.val, "undefined")

\* what does hold: the builders that index no split of the resource
C27_NoUndefinedWithoutIndexing ==
    (/\ ReturnedUrl
     /\ ~includes(obj.arn, "undefined")
     /\ <<obj.service, obj.resource_type>> \notin
            {<<"autoscaling", "autoScalingGroup">>, <<"eks", "nodegroup">>})
        => ~includes(ret.val, "undefined")

----------------------------------------------------------------------------
(* CloudWatch Logs: the log group's name in the link *)

LogGroupMarker == "log-groups/log-group/"

\* the text of url after the first "log-groups/log-group/"
AfterLogGroupMarker(url) ==
    LET n == Len(LogGroupMarker)
        at == {k \in 1..(Len(url) - n + 1) :
                  SubSeq(url, k, k + n - 1) = LogGroupMarker}
    IN  SubSeq(url, Min(at) + n, Len(url))

\* name without one ":*" at its very end
WithoutTrailingWildcard(name) ==
    IF Len(name) >= 2 /\ CharAt(name, Len(name) - 1) = ":" /\
       CharAt(name, Len(name)) = "*"
    THEN SubSeq(name, 1, Len(name) - 2)
    ELSE name

RECURSIVE Escaped(_)
\* name with every '#' written $2523 and every '/' written $252F
Escaped(name) ==
    IF name = "" THEN ""
    ELSE LET c == CharAt(name, 1)
         IN  (IF c = "#" THEN "$2523" ELSE IF c = "/" THEN "$252F" ELSE c)
             \o Escaped(SubSeq(name, 2, Len(name)))

LogGroupLink ==
    /\ ReturnedUrl
    /\ obj.service = "logs"
    /\ obj.resource_type = "log-group"

(* C24: for a logs log-group ARN, what follows "log-groups/log-group/" in the
   returned link is the resource with one ":*" removed from its very end,
   every '#' written $2523 and every '/' written $252F: it has no '/' and no
   '#' of its own. *)
C24_LogGroupEscaping ==
    LogGroupLink
        => LET part == AfterLogGroupMarker(ret.val)
           IN  /\ part = Escaped(WithoutTrailingWildcard(obj.resource))
               /\ Positions(part, "/") = {}
               /\ Positions(part, "#") = {}

C24_Witness ==
    /\ LogGroupLink
    /\ obj.resource = "/aws/lambda/f:*"
    /\ AfterLogGroupMarker(ret.val) = "$252Faws$252Flambda$252Ff"

C24_WitnessHash ==
    /\ LogGroupLink
    /\ obj.resource = "a#b/c#d"
    /\ AfterLogGroupMarker(ret.val) = "a$2523b$252Fc$2523d"

C24_WitnessInnerWildcard ==
    /\ LogGroupLink
    /\ obj.resource = "g:*:x:*"
    /\ AfterLogGroupMarker(ret.val) = "g:*:x"

----------------------------------------------------------------------------
(* resource_revision *)

TypeIdRevisionShape == NumTokens >= 7 /\ indexOf(SixthToken, "/") > 0

(* C25: in every constructed ARN, resource_revision is non-empty only if
   hasPath is true and the resource type is non-empty, the input having the
   type/id:revision shape; in the bare, type/id and type:id shapes it is the
   empty string. *)
C25_RevisionOnlyInRevisionShape ==
    Accepted
        => /\ obj.resource_revision # ""
                => /\ obj.hasPath
                   /\ obj.resource_type # ""
                   /\ TypeIdRevisionShape
           /\ ~TypeIdRevisionShape => obj.resource_revision = ""

C25_Witness ==
    /\ Accepted
    /\ Input = "arn:p:s:r:a:rtype/rid:rev"
    /\ obj.resource_revision = "rev"
    /\ obj.hasPath
    /\ obj.resource_type = "rtype"

\* the type:id shape with qualifiers: no revision
C25_WitnessColonForm ==
    /\ Accepted
    /\ Input = "arn:p:s:r:a:rtype:q1:q2:q3"
    /\ obj.resource = "q1:q2:q3"
    /\ obj.resource_revision = ""

====
